---- MODULE Spec2Model ----
(***************************************************************************)
(* Session gateway of group-genie: the Node server (send-code,            *)
(* verify-code, create-group over the activeClients registry) and the     *)
(* edge function (send_code, verify_code, create_group), both delegating  *)
(* to the GramJS client library.  A handler is a sequence of steps, one   *)
(* per stretch of code between two awaits; the library and the provider   *)
(* behind it are the environment and answer each call nondeterministically.*)
(***************************************************************************)
EXTENDS Integers, Sequences, FiniteSets, TLC

(* ------------------------------ bounds -------------------------------- *)

\* request slots: the number of requests the gateway receives in one run
MaxReq == 2
\* one-millisecond clock ticks in one run
MaxTicks == 1
\* longest mobileNumbers list of a create-group request
MaxNums == 2
\* requests the Node server receives in a run of its login protocol alone
MaxNodeReq == 3

(* --------------------------- program constants ------------------------ *)

\* setTimeout(..., 10 * 60 * 1000)
EvictionMs == 600000

(* ------------------------------- text --------------------------------- *)
\* Strings are sequences of characters, so that whitespace stripping and
\* concatenation are computed and not assumed.

Undefined == <<"undefined">>

\* the characters /\s/ matches and String.prototype.trim strips: the white
\* space and the line terminators of ECMAScript.  A character TLA+ has no
\* escape for is written as its JavaScript escape
Whitespace ==
    {"\t", "\n", "\\v", "\f", "\r", " ", "\\u00A0", "\\u1680",
     "\\u2000", "\\u2001", "\\u2002", "\\u2003", "\\u2004", "\\u2005",
     "\\u2006", "\\u2007", "\\u2008", "\\u2009", "\\u200A",
     "\\u2028", "\\u2029", "\\u202F", "\\u205F", "\\u3000", "\\uFEFF"}

\* phone.replace(/\s/g, '')
CleanPhone(p) == SelectSeq(p, LAMBDA ch : ch \notin Whitespace)

DigitChar == <<"0", "1", "2", "3", "4", "5", "6", "7", "8", "9">>

RECURSIVE DecDigits(_)
\* the decimal text of a non-negative integer, as template literals print it
DecDigits(n) ==
    IF n < 10 THEN <<DigitChar[n + 1]>>
    ELSE DecDigits(n \div 10) \o <<DigitChar[(n % 10) + 1]>>

\* `${cleanPhone}_${Date.now()}`
MkClientId(cleanPhone, t) == cleanPhone \o <<"_">> \o DecDigits(t)

\* a value used in a condition: undefined and '' are falsy
Truthy(s) == s # Undefined /\ s # <<>>

\* error.message.includes(word), messages being sequences of words
Includes(msg, word) == \E n \in 1..Len(msg) : msg[n] = word

\* error.message || fallback
MessageOr(msg, fallback) == IF msg # <<>> THEN msg ELSE fallback

(* ------------------------------ inputs -------------------------------- *)

PhoneInputs == {<<"1", "\t">>, <<"2">>}

NumberInputs == {<<"1">>, <<"2", " ">>}

GroupNames == {<<"g">>, <<"h">>}

WrongCode == <<"code", 0>>
CodeFor(h) == <<"code", h>>

\* messages of the errors the library throws
\* the text V8 gives a property read of undefined (Node 16 and later)
MsgTypeError == <<"Cannot", "read", "properties", "of", "undefined", "(reading", "'replace')">>
MsgNoCreds == <<"Your", "API", "ID", "or", "Hash", "cannot", "be", "empty", "or", "undefined">>
MsgNetwork == <<"connection", "failed">>
MsgPhoneInvalid == <<"400:", "PHONE_NUMBER_INVALID">>
MsgCodeInvalid == <<"400:", "PHONE_CODE_INVALID">>
MsgPassword == <<"401:", "SESSION_PASSWORD_NEEDED">>
MsgChatFailed == <<"400:", "USERS_TOO_FEW">>
MsgDisconnect == <<"disconnect", "failed">>
\* the text V8 gives the read of mobileNumbers.length when the body has no
\* mobileNumbers
MsgNoLength == <<"Cannot", "read", "properties", "of", "undefined", "(reading", "'length')">>
\* the generation of V8 the edge function runs on: 10 (Node 18), 11 (Node 20)
\* or 12 (Node 22 and the Deno of today)
Runtime == 12

\* request bodies that are not JSON: the empty body and three texts
NotJson == {"", "x", "{", "{\"action\": \"send_code\", }"}

\* bodies that carry none of the three actions: the bodies that are not
\* JSON, the JSON null and an object without an action
OtherBodies == NotJson \cup {"null", "{}"}

\* the text of the SyntaxError req.json() rejects with, for a body of NotJson
\* under a generation of V8
JsonError(text, v8) ==
    LET at(position, column) ==
            IF v8 >= 12
            THEN <<"at", "position", position, "(line", "1", "column", column>>
            ELSE <<"at", "position", position>>
    IN  CASE text = "" -> <<"Unexpected", "end", "of", "JSON", "input">>
          [] text = "x" ->
               IF v8 <= 10
               THEN <<"Unexpected", "token", "x", "in", "JSON">> \o at("0", "1)")
               ELSE <<"Unexpected", "token", "'x',", "\"x\"", "is", "not", "valid", "JSON">>
          [] text = "{" ->
               IF v8 <= 10
               THEN <<"Unexpected", "end", "of", "JSON", "input">>
               ELSE <<"Expected", "property", "name", "or", "'}'", "in", "JSON">> \o at("1", "2)")
          [] text = "{\"action\": \"send_code\", }" ->
               IF v8 <= 10
               THEN <<"Unexpected", "token", "}", "in", "JSON">> \o at("24", "25)")
               ELSE <<"Expected", "double-quoted", "property", "name", "in", "JSON">> \o at("24", "25)")

\* the text V8 gives the read of body.action when the body is the JSON null
MsgNoAction == <<"Cannot", "read", "properties", "of", "null", "(reading", "'action')">>

\* the mobileNumbers of a body that has none
NoList == <<Undefined>>

(* ------------------------------- state -------------------------------- *)

VARIABLES
    credsOk,        \* TELEGRAM_API_ID and TELEGRAM_API_HASH are both configured
    now,            \* Date.now(), in milliseconds
    activeClients,  \* the Node server's registry: clientId -> {client, phoneNumber}
    timers,         \* pending setTimeout callbacks: {clientId, due, by: the request that set it}
    running,        \* the Node process runs; FALSE once it has exited
    closing,        \* the clients whose disconnect a timer callback started, unsettled
    conns,          \* the library's clients: sequence of {state, key}
    issued,         \* provider: the codes sent, {phone, hash, conn}
    req,            \* the requests: body, position and locals of each handler run
    resp,           \* the response each request got
    form,           \* GroupCreatorForm: the component's state and the last toast
    localStorage,   \* the browser's saved telegram_backend_url, <<>> when none
    http            \* the client's fetch: the request in flight, the count sent, the last answer

vars == <<credsOk, now, running, activeClients, timers, closing, conns, issued, req, resp,
          form, localStorage, http>>

\* the state of the browser client
browser == <<form, localStorage, http>>

Slots == 1..MaxReq

NoResp == [none |-> TRUE]

NoReq == [op |-> "none", impl |-> "none", pc |-> "idle",
          phoneNumber |-> Undefined, phoneCodeHash |-> 0, code |-> WrongCode,
          clientId |-> Undefined, sessionString |-> 0, groupName |-> Undefined,
          mobileNumbers |-> <<>>, text |-> "{}",
          cleanPhone |-> Undefined, client |-> 0, stored |-> FALSE,
          users |-> <<>>, failedNumbers |-> <<>>, k |-> 0, lib |-> <<>>]

\* no fetch in flight, no response read yet, no toast shown yet
NoFetch == [endpoint |-> "none"]
NoAnswer == [none |-> TRUE]
NoToast == [kind |-> "none", text |-> <<>>]

\* lines 23-37: the state a first render constructs, the saved URL being
\* given: localStorage.getItem('telegram_backend_url') || ''
NewForm(savedUrl) ==
    [mounted |-> FALSE,
     step |-> "setup",
     formData |-> [groupName |-> <<>>, mobileNumbers |-> <<>>, groupImage |-> 0,
                   phoneNumber |-> <<>>, otpCode |-> <<>>, backendUrl |-> savedUrl],
     phoneCodeHash |-> 0,
     clientId |-> <<>>,
     sessionString |-> 0,
     imagePreview |-> 0,
     readers |-> <<>>,
     isLoading |-> FALSE,
     status |-> "idle",
     toast |-> NoToast]

\* no timer callback has started a disconnect
NoClosing == {}

\* nothing sent, nothing in flight
NoHttp == [pending |-> NoFetch, sent |-> 0, response |-> NoAnswer]

\* a server run with no browser attached
NoBrowser ==
    /\ localStorage = <<>>
    /\ form = NewForm(<<>>)
    /\ http = NoHttp

Init ==
    /\ credsOk \in BOOLEAN
    /\ now = 0
    /\ activeClients = [id \in {} |-> 0]
    /\ timers = {}
    /\ running = TRUE
    /\ closing = NoClosing
    /\ conns = <<>>
    /\ issued = {}
    /\ req = [i \in Slots |-> NoReq]
    /\ resp = [i \in Slots |-> NoResp]
    /\ NoBrowser

(* ------------------------------ helpers ------------------------------- *)

\* the next request takes the lowest free slot
Free(i) == req[i].op = "none" /\ (IF i = 1 THEN TRUE ELSE req[i - 1].op # "none")

Responded(i) == resp[i] # NoResp

\* activeClients.has(id)
Has(id) == id \in DOMAIN activeClients

\* activeClients.set(id, entry)
MapSet(m, id, entry) == [x \in DOMAIN m \cup {id} |-> IF x = id THEN entry ELSE m[x]]

\* activeClients.delete(id)
MapDelete(m, id) == [x \in DOMAIN m \ {id} |-> m[x]]

\* new TelegramClient(new StringSession(s), apiId, apiHash, ...): the client
\* holds the auth key of the session string, or none yet for ''
NewClient(s) == [state |-> "new", key |-> s]

\* client.connect() resolved: a client without an auth key generates one
Connected(c) == [conns EXCEPT ![c] = [state |-> "connected",
                                      key |-> IF @.key = 0 THEN c ELSE @.key]]

\* client.disconnect()
Disconnected(c) == [conns EXCEPT ![c].state = "closed"]

\* the saved text of a session that never got the client's auth key
SessionSaveEmpty(c) == 0

\* client.session.save()
SessionSave(c) == conns[c].key

\* one more entry in the record of the library calls a request made
Called(i, entry) == Append(req[i].lib, entry)

\* res.status(500).json({ success: false, error: error.message || fallback })
Failure500(msg, fallback) ==
    [status |-> 500, success |-> FALSE, error |-> MessageOr(msg, fallback)]

(* ----------------------- Node server: send-code ----------------------- *)

MsgSendFallback == <<"Failed", "to", "send", "verification", "code">>

\* lines 31-43: read the body, strip the phone, construct the client, connect
NodeSendCodeStart(i, phoneNumber) ==
    /\ running
    /\ Free(i)
    /\ IF phoneNumber = Undefined
       THEN /\ req' = [req EXCEPT ![i] = [NoReq EXCEPT !.op = "send", !.impl = "node",
                                           !.pc = "done", !.phoneNumber = phoneNumber]]
            /\ resp' = [resp EXCEPT ![i] = Failure500(MsgTypeError, MsgSendFallback)]
            /\ UNCHANGED conns
       ELSE IF ~credsOk
       THEN /\ req' = [req EXCEPT ![i] = [NoReq EXCEPT !.op = "send", !.impl = "node",
                                           !.pc = "done", !.phoneNumber = phoneNumber,
                                           !.cleanPhone = CleanPhone(phoneNumber)]]
            /\ resp' = [resp EXCEPT ![i] = Failure500(MsgNoCreds, MsgSendFallback)]
            /\ UNCHANGED conns
       ELSE /\ req' = [req EXCEPT ![i] = [NoReq EXCEPT !.op = "send", !.impl = "node",
                                           !.pc = "connect", !.phoneNumber = phoneNumber,
                                           !.cleanPhone = CleanPhone(phoneNumber),
                                           !.client = Len(conns) + 1]]
            /\ conns' = Append(conns, NewClient(0))
            /\ UNCHANGED resp
    /\ UNCHANGED <<browser, running, closing, credsOk, now, activeClients, timers, issued>>

\* a handler that stores the client as soon as it is connected, before the
\* code was sent
NodeSendCodeStoresEarly(i, ok) ==
    /\ running
    /\ req[i].op = "send" /\ req[i].impl = "node" /\ req[i].pc = "connect"
    /\ IF ok
       THEN /\ conns' = Connected(req[i].client)
            /\ activeClients' = MapSet(activeClients, MkClientId(req[i].cleanPhone, now),
                                       [client |-> req[i].client,
                                        phoneNumber |-> req[i].cleanPhone])
            /\ req' = [req EXCEPT ![i].pc = "sendcode",
                                  ![i].lib = Called(i, [call |-> "connect", ok |-> TRUE])]
            /\ UNCHANGED resp
       ELSE /\ req' = [req EXCEPT ![i].pc = "done",
                                  ![i].lib = Called(i, [call |-> "connect", ok |-> FALSE])]
            /\ resp' = [resp EXCEPT ![i] = Failure500(MsgNetwork, MsgSendFallback)]
            /\ UNCHANGED <<conns, activeClients>>
    /\ UNCHANGED <<browser, running, closing, credsOk, now, timers, issued>>

\* lines 43-56: connect resolved; on success invoke auth.SendCode
NodeSendCodeConnected(i, ok) ==
    /\ running
    /\ req[i].op = "send" /\ req[i].impl = "node" /\ req[i].pc = "connect"
    /\ IF ok
       THEN /\ conns' = Connected(req[i].client)
            /\ req' = [req EXCEPT ![i].pc = "sendcode",
                                  ![i].lib = Called(i, [call |-> "connect", ok |-> TRUE])]
            /\ UNCHANGED resp
       ELSE /\ req' = [req EXCEPT ![i].pc = "done",
                                  ![i].lib = Called(i, [call |-> "connect", ok |-> FALSE])]
            /\ resp' = [resp EXCEPT ![i] = Failure500(MsgNetwork, MsgSendFallback)]
            /\ UNCHANGED conns
    /\ UNCHANGED <<browser, running, closing, credsOk, now, activeClients, timers, issued>>

\* the provider sends a code only to a phone number, whitespace aside
CanSendCode(phone) == phone # Undefined /\ CleanPhone(phone) # <<>>

NextHash == Cardinality(issued) + 1

\* lines 58-68: store the client under a fresh id and arm its eviction timer
StoreClient(i, id, c, cleanPhone) ==
    /\ activeClients' = MapSet(activeClients, id, [client |-> c, phoneNumber |-> cleanPhone])
    /\ timers' = timers \cup {[clientId |-> id, due |-> now + EvictionMs, by |-> i]}

\* lines 45-85: auth.SendCode resolved
NodeSendCodeResult(i, ok) ==
    /\ running
    /\ req[i].op = "send" /\ req[i].impl = "node" /\ req[i].pc = "sendcode"
    /\ ok => CanSendCode(req[i].cleanPhone)
    /\ IF ok
       THEN LET id == MkClientId(req[i].cleanPhone, now)
                hash == NextHash
            IN  /\ issued' = issued \cup {[phone |-> req[i].cleanPhone, hash |-> hash,
                                           conn |-> req[i].client]}
                /\ StoreClient(i, id, req[i].client, req[i].cleanPhone)
                /\ req' = [req EXCEPT ![i].pc = "done",
                                      ![i].lib = Called(i, [call |-> "SendCode", ok |-> TRUE])]
                /\ resp' = [resp EXCEPT ![i] =
                              [status |-> 200, success |-> TRUE, phoneCodeHash |-> hash,
                               clientId |-> id]]
       ELSE /\ req' = [req EXCEPT ![i].pc = "done",
                                  ![i].lib = Called(i, [call |-> "SendCode", ok |-> FALSE])]
            /\ resp' = [resp EXCEPT ![i] = Failure500(MsgPhoneInvalid, MsgSendFallback)]
            /\ UNCHANGED <<activeClients, timers, issued>>
    /\ UNCHANGED <<browser, running, closing, credsOk, now, conns>>

\* a callback that disconnects the stored client but leaves its entry
EvictionTimerKeepsEntry(t) ==
    /\ running
    /\ t \in timers
    /\ now >= t.due
    /\ timers' = timers \ {t}
    /\ IF Has(t.clientId)
       THEN closing' = closing \cup {activeClients[t.clientId].client}
       ELSE UNCHANGED closing
    /\ UNCHANGED <<browser, running, credsOk, now, conns, issued, req, resp, activeClients>>

\* lines 63-68: the setTimeout callback.  client.disconnect() is called and
\* not awaited: the callback starts the disconnect, deletes the entry and
\* returns; the disconnect ends in a later turn of the event loop
EvictionTimer(t) ==
    /\ running
    /\ t \in timers
    /\ now >= t.due
    /\ timers' = timers \ {t}
    /\ IF Has(t.clientId)
       THEN /\ closing' = closing \cup {activeClients[t.clientId].client}
            /\ activeClients' = MapDelete(activeClients, t.clientId)
       ELSE UNCHANGED <<closing, activeClients>>
    /\ UNCHANGED <<browser, running, credsOk, now, conns, issued, req, resp>>

\* the clients the Node server constructed
NodeClients == {req[j].client : j \in {x \in DOMAIN req : req[x].impl = "node"}} \ {0}

\* the process exits: its sockets are closed, and the registry, the timers
\* and the handlers in progress are gone with it
ProcessExit ==
    /\ running' = FALSE
    /\ activeClients' = [id \in {} |-> 0]
    /\ timers' = {}
    /\ closing' = NoClosing
    /\ conns' = [c \in DOMAIN conns |->
                   IF c \in NodeClients THEN [conns[c] EXCEPT !.state = "closed"]
                   ELSE conns[c]]

\* line 65: the promise of the disconnect a timer callback started settles.
\* Nothing handles it: when it is rejected, the rejection is unhandled and
\* Node (15 and later) ends the process with exit code 1
EvictionDisconnected(c, ok) ==
    /\ running
    /\ c \in closing
    /\ IF ok
       THEN /\ closing' = closing \ {c}
            /\ conns' = Disconnected(c)
            /\ UNCHANGED <<running, activeClients, timers>>
       ELSE ProcessExit
    /\ UNCHANGED <<browser, credsOk, now, issued, req, resp>>

\* time passes: a millisecond, or the eviction window
Tick(d) ==
    /\ now + d <= EvictionMs + MaxTicks
    /\ (now + d) % EvictionMs <= MaxTicks
    /\ now' = now + d
    /\ UNCHANGED <<browser, running, closing, credsOk, activeClients, timers, conns, issued, req, resp>>

(* ---------------------- Node server: verify-code ---------------------- *)

MsgVerifyFallback == <<"Failed", "to", "verify", "code">>
MsgTwoFactor == <<"Two-factor", "authentication", "is", "enabled.", "Please", "disable",
                  "2FA", "temporarily", "or", "provide", "password.">>

\* the provider accepts a sign-in for a code it sent to that phone under that hash
CanSignIn(phone, hash, code) ==
    /\ phone # Undefined
    /\ code = CodeFor(hash)
    /\ \E s \in issued : s.phone = CleanPhone(phone) /\ s.hash = hash

\* the ways auth.SignIn ends, and the message of the error it throws
SignInOutcomes == {"ok", "invalid", "password", "network"}
SignInMessage(outcome) ==
    CASE outcome = "invalid" -> MsgCodeInvalid
      [] outcome = "password" -> MsgPassword
      [] OTHER -> <<>>

\* a sign-in that is treated as done although a password is still needed
SignInReturnsOrNeedsPassword(outcome) == outcome \in {"ok", "password"}

\* lines 110-118: await client.invoke(auth.SignIn) returns instead of throwing
SignInReturns(outcome) == outcome = "ok"

\* what the provider and the connection allow auth.SignIn to answer
SignInAllowed(c, phone, hash, code, outcome) ==
    /\ outcome \in {"ok", "password"} => CanSignIn(phone, hash, code)
    /\ outcome = "ok" => conns[c].state = "connected"
    /\ outcome = "invalid" => ~CanSignIn(phone, hash, code)

\* a lookup that never finds the stored client
UseStoredNever(clientId) == FALSE

\* lines 99-100: the stored client is used when the request names a stored id
UseStored(clientId) == Truthy(clientId) /\ Has(clientId)

\* lines 89-108: read the body, pick the stored client or construct and
\* connect a new one; with the stored client auth.SignIn is invoked at once
NodeVerifyCodeStart(i, phoneNumber, phoneCodeHash, code, clientId) ==
    /\ running
    /\ Free(i)
    /\ LET body == [NoReq EXCEPT !.op = "verify", !.impl = "node",
                                 !.phoneNumber = phoneNumber,
                                 !.phoneCodeHash = phoneCodeHash,
                                 !.code = code, !.clientId = clientId]
       IN
       IF phoneNumber = Undefined
       THEN /\ req' = [req EXCEPT ![i] = [body EXCEPT !.pc = "done"]]
            /\ resp' = [resp EXCEPT ![i] = Failure500(MsgTypeError, MsgVerifyFallback)]
            /\ UNCHANGED conns
       ELSE IF UseStored(clientId)
       THEN /\ req' = [req EXCEPT ![i] = [body EXCEPT !.pc = "signin",
                                            !.cleanPhone = CleanPhone(phoneNumber),
                                            !.client = activeClients[clientId].client,
                                            !.stored = TRUE]]
            /\ UNCHANGED <<conns, resp>>
       ELSE IF ~credsOk
       THEN /\ req' = [req EXCEPT ![i] = [body EXCEPT !.pc = "done",
                                            !.cleanPhone = CleanPhone(phoneNumber)]]
            /\ resp' = [resp EXCEPT ![i] = Failure500(MsgNoCreds, MsgVerifyFallback)]
            /\ UNCHANGED conns
       ELSE /\ req' = [req EXCEPT ![i] = [body EXCEPT !.pc = "connect",
                                            !.cleanPhone = CleanPhone(phoneNumber),
                                            !.client = Len(conns) + 1]]
            /\ conns' = Append(conns, NewClient(0))
            /\ UNCHANGED resp
    /\ UNCHANGED <<browser, running, closing, credsOk, now, activeClients, timers, issued>>

\* lines 107-116: connect of the new client resolved; on success invoke auth.SignIn
NodeVerifyCodeConnected(i, ok) ==
    /\ running
    /\ req[i].op = "verify" /\ req[i].impl = "node" /\ req[i].pc = "connect"
    /\ IF ok
       THEN /\ conns' = Connected(req[i].client)
            /\ req' = [req EXCEPT ![i].pc = "signin",
                                  ![i].lib = Called(i, [call |-> "connect", ok |-> TRUE])]
            /\ UNCHANGED resp
       ELSE /\ req' = [req EXCEPT ![i].pc = "done",
                                  ![i].lib = Called(i, [call |-> "connect", ok |-> FALSE])]
            /\ resp' = [resp EXCEPT ![i] = Failure500(MsgNetwork, MsgVerifyFallback)]
            /\ UNCHANGED conns
    /\ UNCHANGED <<browser, running, closing, credsOk, now, activeClients, timers, issued>>

\* the entry of the library-call record for one auth.SignIn
SignInCall(i, phone, outcome) ==
    [call |-> "SignIn", conn |-> req[i].client, phoneNumber |-> phone,
     phoneCodeHash |-> req[i].phoneCodeHash, phoneCode |-> req[i].code,
     ok |-> (outcome = "ok"), error |-> SignInMessage(outcome)]

\* a verify-code that leaves the registry as it is
CleanUpNothing(clientId) == activeClients

\* lines 122-124: the entry under the request's id is deleted, if there is one
CleanUp(clientId) ==
    IF UseStored(clientId) THEN MapDelete(activeClients, clientId) ELSE activeClients

\* a catch block that reports the failure in the body only
NodeVerifyFailureInBody(msg) ==
    [status |-> 200, success |-> FALSE, error |-> MessageOr(msg, MsgVerifyFallback)]

\* lines 132-149: the catch block of verify-code
NodeVerifyFailure(msg) ==
    IF msg # <<>> /\ Includes(msg, "SESSION_PASSWORD_NEEDED")
    THEN [status |-> 400, success |-> FALSE, error |-> MsgTwoFactor,
          requiresPassword |-> TRUE]
    ELSE Failure500(msg, MsgVerifyFallback)

\* lines 110-149: auth.SignIn resolved
NodeVerifyCodeResult(i, outcome) ==
    /\ running
    /\ req[i].op = "verify" /\ req[i].impl = "node" /\ req[i].pc = "signin"
    /\ SignInAllowed(req[i].client, req[i].cleanPhone, req[i].phoneCodeHash,
                     req[i].code, outcome)
    /\ req' = [req EXCEPT ![i].pc = "done",
                          ![i].lib = Called(i, SignInCall(i, req[i].cleanPhone, outcome))]
    /\ IF SignInReturns(outcome)
       THEN /\ activeClients' = CleanUp(req[i].clientId)
            /\ resp' = [resp EXCEPT ![i] =
                          [status |-> 200, success |-> TRUE,
                           sessionString |-> SessionSave(req[i].client)]]
       ELSE /\ resp' = [resp EXCEPT ![i] = NodeVerifyFailure(SignInMessage(outcome))]
            /\ UNCHANGED activeClients
    /\ UNCHANGED <<browser, running, closing, credsOk, now, timers, conns, issued>>

(* ------------------- edge function: send_code, verify_code ------------ *)

MsgNotConfigured == <<"Telegram", "API", "credentials", "not", "configured">>

MsgUnknown == <<"Unknown", "error", "occurred">>

\* lines 43-51: the answer to a request when a credential is missing
EdgeNotConfigured == [status |-> 500, success |-> FALSE, error |-> MsgNotConfigured]

\* what a library call rejects with: an Error carrying the message, or a
\* value that is not an Error
Rejections(msg) == {[isError |-> TRUE, message |-> msg],
                    [isError |-> FALSE, message |-> msg]}

\* lines 210-218: the catch block of the edge function
EdgeFailure(e) ==
    [status |-> 500, success |-> FALSE,
     error |-> IF e.isError THEN e.message ELSE MsgUnknown]

\* lines 39-53: check the credentials, then start reading the body; the
\* handler returns to the event loop until the body is read
EdgeStart(i, op, body) ==
    /\ Free(i)
    /\ IF ~credsOk
       THEN /\ req' = [req EXCEPT ![i] = [body EXCEPT !.op = op, !.impl = "edge",
                                                     !.pc = "done"]]
            /\ resp' = [resp EXCEPT ![i] = EdgeNotConfigured]
       ELSE /\ req' = [req EXCEPT ![i] = [body EXCEPT !.op = op, !.impl = "edge",
                                                     !.pc = "body"]]
            /\ UNCHANGED resp
    /\ UNCHANGED <<browser, running, closing, credsOk, now, activeClients, timers, conns, issued>>

\* lines 205-208: the answer to a body whose action is none of the three
EdgeInvalidAction == [status |-> 400, success |-> FALSE, error |-> <<"Invalid", "action">>]

\* lines 53-66, 95-104, 129-138, 205-218: req.json() settles.  It rejects
\* for a body that is not JSON and the catch block answers; the read of
\* body.action throws for the JSON null; a body with none of the three
\* actions falls through to the last return; create_group reads
\* mobileNumbers.length first; otherwise the client of the action is
\* constructed and connects
EdgeBodyRead(i) ==
    /\ req[i].impl = "edge" /\ req[i].pc = "body"
    /\ IF req[i].op = "other" /\ req[i].text \in NotJson
       THEN /\ req' = [req EXCEPT ![i].pc = "done"]
            /\ resp' = [resp EXCEPT ![i] =
                          EdgeFailure([isError |-> TRUE,
                                       message |-> JsonError(req[i].text, Runtime)])]
            /\ UNCHANGED conns
       ELSE IF req[i].op = "other" /\ req[i].text = "null"
       THEN /\ req' = [req EXCEPT ![i].pc = "done"]
            /\ resp' = [resp EXCEPT ![i] =
                          EdgeFailure([isError |-> TRUE, message |-> MsgNoAction])]
            /\ UNCHANGED conns
       ELSE IF req[i].op = "other"
       THEN /\ req' = [req EXCEPT ![i].pc = "done"]
            /\ resp' = [resp EXCEPT ![i] = EdgeInvalidAction]
            /\ UNCHANGED conns
       ELSE IF req[i].op = "create" /\ req[i].mobileNumbers = NoList
       THEN /\ req' = [req EXCEPT ![i].pc = "done"]
            /\ resp' = [resp EXCEPT ![i] =
                          EdgeFailure([isError |-> TRUE, message |-> MsgNoLength])]
            /\ UNCHANGED conns
       ELSE /\ req' = [req EXCEPT ![i].pc = "connect", ![i].client = Len(conns) + 1]
            /\ conns' = Append(conns, NewClient(req[i].sessionString))
            /\ UNCHANGED resp
    /\ UNCHANGED <<browser, running, closing, credsOk, now, activeClients, timers, issued>>

\* lines 39-55: a body that carries none of the three actions
EdgeOtherStart(i, text) == EdgeStart(i, "other", [NoReq EXCEPT !.text = text])

\* lines 57-66
EdgeSendCodeStart(i, phoneNumber) ==
    EdgeStart(i, "send", [NoReq EXCEPT !.phoneNumber = phoneNumber])

\* lines 95-104
EdgeVerifyCodeStart(i, phoneNumber, phoneCodeHash, code) ==
    EdgeStart(i, "verify", [NoReq EXCEPT !.phoneNumber = phoneNumber,
                                         !.phoneCodeHash = phoneCodeHash,
                                         !.code = code])

\* lines 66-68, 104-106: connect resolved; on success the request is invoked
EdgeConnected(i, ok) ==
    /\ req[i].op \in {"send", "verify"} /\ req[i].impl = "edge" /\ req[i].pc = "connect"
    /\ IF ok
       THEN /\ conns' = Connected(req[i].client)
            /\ req' = [req EXCEPT ![i].pc = CASE req[i].op = "send" -> "sendcode"
                                              [] req[i].op = "verify" -> "signin"
                                              [] OTHER -> "resolve",
                                  ![i].lib = Called(i, [call |-> "connect", ok |-> TRUE])]
            /\ UNCHANGED resp
       ELSE /\ req' = [req EXCEPT ![i].pc = "done",
                                  ![i].lib = Called(i, [call |-> "connect", ok |-> FALSE])]
            /\ \E e \in Rejections(MsgNetwork) : resp' = [resp EXCEPT ![i] = EdgeFailure(e)]
            /\ UNCHANGED conns
    /\ UNCHANGED <<browser, running, closing, credsOk, now, activeClients, timers, issued>>

\* lines 68-82: auth.SendCode resolved; on success disconnect
EdgeSendCodeResult(i, ok) ==
    /\ req[i].op = "send" /\ req[i].impl = "edge" /\ req[i].pc = "sendcode"
    /\ ok => CanSendCode(req[i].phoneNumber)
    /\ IF ok
       THEN /\ issued' = issued \cup {[phone |-> CleanPhone(req[i].phoneNumber),
                                       hash |-> NextHash, conn |-> req[i].client]}
            /\ req' = [req EXCEPT ![i].pc = "disconnect",
                                  ![i].phoneCodeHash = NextHash,
                                  ![i].lib = Called(i, [call |-> "SendCode", ok |-> TRUE])]
            /\ UNCHANGED resp
       ELSE /\ req' = [req EXCEPT ![i].pc = "done",
                                  ![i].lib = Called(i, [call |-> "SendCode", ok |-> FALSE])]
            /\ \E e \in Rejections(MsgPhoneInvalid) : resp' = [resp EXCEPT ![i] = EdgeFailure(e)]
            /\ UNCHANGED issued
    /\ UNCHANGED <<browser, running, closing, credsOk, now, activeClients, timers, conns>>

\* lines 82-91, 210-218: disconnect resolved; the success response of
\* send_code, or the catch block when disconnect threw
EdgeSendCodeDone(i, ok) ==
    /\ req[i].op = "send" /\ req[i].impl = "edge" /\ req[i].pc = "disconnect"
    /\ conns' = IF ok THEN Disconnected(req[i].client) ELSE conns
    /\ req' = [req EXCEPT ![i].pc = "done",
                          ![i].lib = Called(i, [call |-> "disconnect", ok |-> ok])]
    /\ \E e \in Rejections(MsgDisconnect) :
         resp' = [resp EXCEPT ![i] =
                  IF ok THEN [status |-> 200, success |-> TRUE,
                              phoneCodeHash |-> req[i].phoneCodeHash]
                  ELSE EdgeFailure(e)]
    /\ UNCHANGED <<browser, running, closing, credsOk, now, activeClients, timers, issued>>

\* lines 106-116: auth.SignIn resolved; on success save the session and disconnect
EdgeVerifyCodeResult(i, outcome) ==
    /\ req[i].op = "verify" /\ req[i].impl = "edge" /\ req[i].pc = "signin"
    /\ SignInAllowed(req[i].client, req[i].phoneNumber, req[i].phoneCodeHash,
                     req[i].code, outcome)
    /\ IF SignInReturns(outcome)
       THEN /\ req' = [req EXCEPT ![i].pc = "disconnect",
                                  ![i].sessionString = SessionSave(req[i].client),
                                  ![i].lib = Called(i, SignInCall(i, req[i].phoneNumber, outcome))]
            /\ UNCHANGED resp
       ELSE /\ req' = [req EXCEPT ![i].pc = "done",
                                  ![i].lib = Called(i, SignInCall(i, req[i].phoneNumber, outcome))]
            /\ \E e \in Rejections(SignInMessage(outcome)) : resp' = [resp EXCEPT ![i] = EdgeFailure(e)]
    /\ UNCHANGED <<browser, running, closing, credsOk, now, activeClients, timers, conns, issued>>

\* lines 116-125, 210-218: disconnect resolved; the success response of
\* verify_code, or the catch block when disconnect threw
EdgeVerifyCodeDone(i, ok) ==
    /\ req[i].op = "verify" /\ req[i].impl = "edge" /\ req[i].pc = "disconnect"
    /\ conns' = IF ok THEN Disconnected(req[i].client) ELSE conns
    /\ req' = [req EXCEPT ![i].pc = "done",
                          ![i].lib = Called(i, [call |-> "disconnect", ok |-> ok])]
    /\ \E e \in Rejections(MsgDisconnect) :
         resp' = [resp EXCEPT ![i] =
                  IF ok THEN [status |-> 200, success |-> TRUE,
                              sessionString |-> req[i].sessionString]
                  ELSE EdgeFailure(e)]
    /\ UNCHANGED <<browser, running, closing, credsOk, now, activeClients, timers, issued>>

(* ---------------------- Node server: create-group --------------------- *)

MsgCreateFallback == <<"Failed", "to", "create", "group">>
MsgNoUsers == <<"No", "valid", "Telegram", "users", "found", "for", "the", "provided",
                "phone", "numbers">>

\* the ways contacts.ImportContacts ends: it throws, it returns no user, it
\* returns a user with id and access hash, or a user without access hash
ImportOutcomes == {"throw", "none", "user", "partial"}

\* new Api.InputUser({ userId: user.id, accessHash: ... }) for the user the
\* provider knows under that phone
InputUser(phone, accessHash) == [userId |-> CleanPhone(phone), accessHash |-> accessHash]

\* the entry of the library-call record for one contacts.ImportContacts
ImportCall(phone, outcome) == [call |-> "ImportContacts", phone |-> phone, outcome |-> outcome]

\* the entry of the library-call record for one messages.CreateChat
CreateChatCall(users, title, ok) ==
    [call |-> "CreateChat", users |-> users, title |-> title, ok |-> ok]

\* a user counted without looking at what the library returned
NodeResolvedUnlessThrown(outcome) == outcome # "throw"

\* lines 186-201: a user counts when it has an id and an access hash
NodeResolved(outcome) == outcome = "user"

\* lines 153-164: read the body, rebuild the client from the session, connect
NodeCreateGroupStart(i, sessionString, groupName, mobileNumbers) ==
    /\ running
    /\ Free(i)
    /\ LET body == [NoReq EXCEPT !.op = "create", !.impl = "node",
                                 !.sessionString = sessionString,
                                 !.groupName = groupName,
                                 !.mobileNumbers = mobileNumbers]
       IN
       IF mobileNumbers = NoList
       THEN /\ req' = [req EXCEPT ![i] = [body EXCEPT !.pc = "done"]]
            /\ resp' = [resp EXCEPT ![i] = Failure500(MsgNoLength, MsgCreateFallback)]
            /\ UNCHANGED conns
       ELSE IF ~credsOk
       THEN /\ req' = [req EXCEPT ![i] = [body EXCEPT !.pc = "done"]]
            /\ resp' = [resp EXCEPT ![i] = Failure500(MsgNoCreds, MsgCreateFallback)]
            /\ UNCHANGED conns
       ELSE /\ req' = [req EXCEPT ![i] = [body EXCEPT !.pc = "connect",
                                            !.client = Len(conns) + 1]]
            /\ conns' = Append(conns, NewClient(sessionString))
            /\ UNCHANGED resp
    /\ UNCHANGED <<browser, running, closing, credsOk, now, activeClients, timers, issued>>

\* the loop without the check for an empty user list
AfterNumberNoCheck(r, k, users) ==
    IF k < Len(r.mobileNumbers) THEN "resolve" ELSE "createchat"

\* the loop leaving out the last number
AfterNumberShort(r, k, users) ==
    IF k + 1 < Len(r.mobileNumbers) THEN "resolve"
    ELSE IF Len(users) = 0 THEN "disconnect_empty"
    ELSE "createchat"

\* where the handler waits once k numbers are done: on the import of the next
\* number, else (lines 208-224) on disconnect when no user was found, else on
\* messages.CreateChat
AfterNumber(r, k, users) ==
    IF k < Len(r.mobileNumbers) THEN "resolve"
    ELSE IF Len(users) = 0 THEN "disconnect_empty"
    ELSE "createchat"

\* lines 164-184: connect resolved; on success the loop starts
NodeCreateGroupConnected(i, ok) ==
    /\ running
    /\ req[i].op = "create" /\ req[i].impl = "node" /\ req[i].pc = "connect"
    /\ IF ok
       THEN /\ conns' = Connected(req[i].client)
            /\ req' = [req EXCEPT ![i].pc = AfterNumber(req[i], 0, <<>>),
                                  ![i].lib = Called(i, [call |-> "connect", ok |-> TRUE])]
            /\ UNCHANGED resp
       ELSE /\ req' = [req EXCEPT ![i].pc = "done",
                                  ![i].lib = Called(i, [call |-> "connect", ok |-> FALSE])]
            /\ resp' = [resp EXCEPT ![i] = Failure500(MsgNetwork, MsgCreateFallback)]
            /\ UNCHANGED conns
    /\ UNCHANGED <<browser, running, closing, credsOk, now, activeClients, timers, issued>>

\* lines 170-206: contacts.ImportContacts for number k + 1 resolved
NodeCreateGroupResolved(i, outcome) ==
    /\ running
    /\ req[i].op = "create" /\ req[i].impl = "node" /\ req[i].pc = "resolve"
    /\ LET cleanPhone == CleanPhone(req[i].mobileNumbers[req[i].k + 1])
           users == IF NodeResolved(outcome)
                    THEN Append(req[i].users, InputUser(cleanPhone, TRUE))
                    ELSE req[i].users
           failedNumbers == IF NodeResolved(outcome)
                            THEN req[i].failedNumbers
                            ELSE Append(req[i].failedNumbers, cleanPhone)
       IN  req' = [req EXCEPT ![i].k = @ + 1,
                              ![i].users = users,
                              ![i].failedNumbers = failedNumbers,
                              ![i].pc = AfterNumber(req[i], req[i].k + 1, users),
                              ![i].lib = Called(i, ImportCall(cleanPhone, outcome))]
    /\ UNCHANGED <<browser, running, closing, credsOk, now, activeClients, timers, conns, issued, resp>>

\* lines 208-216, 238-244: disconnect resolved; the response when no user was
\* found, or the catch block when disconnect threw
NodeCreateGroupEmpty(i, ok) ==
    /\ running
    /\ req[i].op = "create" /\ req[i].impl = "node" /\ req[i].pc = "disconnect_empty"
    /\ conns' = IF ok THEN Disconnected(req[i].client) ELSE conns
    /\ req' = [req EXCEPT ![i].pc = "done",
                          ![i].lib = Called(i, [call |-> "disconnect", ok |-> ok])]
    /\ resp' = [resp EXCEPT ![i] =
                  IF ok THEN [status |-> 400, success |-> FALSE,
                              error |-> MsgNoUsers,
                              failedNumbers |-> req[i].failedNumbers]
                  ELSE Failure500(MsgDisconnect, MsgCreateFallback)]
    /\ UNCHANGED <<browser, running, closing, credsOk, now, activeClients, timers, issued>>

\* a handler that invokes CreateChat once more after it returned
AfterCreateChatAgain(ok) == IF ok THEN "createchat" ELSE "done"

\* a failed CreateChat that is not thrown on
AfterCreateChatSwallowed(ok) == "disconnect_ok"

\* lines 219-228: await client.invoke(CreateChat) returns and the handler goes
\* on to disconnect, or throws into the catch block
AfterCreateChat(ok) == IF ok THEN "disconnect_ok" ELSE "done"

\* the ways messages.CreateChat ends: it returns, or throws an error with or
\* without a message
ChatOutcomes == {"ok", "failed", "failed_silent"}
ChatMessage(outcome) == IF outcome = "failed" THEN MsgChatFailed ELSE <<>>

\* lines 218-228, 238-244: messages.CreateChat resolved; on success disconnect
NodeCreateGroupCreated(i, outcome) ==
    /\ running
    /\ req[i].op = "create" /\ req[i].impl = "node" /\ req[i].pc = "createchat"
    /\ req' = [req EXCEPT ![i].pc = AfterCreateChat(outcome = "ok"),
                          ![i].lib = Called(i, CreateChatCall(req[i].users,
                                                              req[i].groupName,
                                                              outcome = "ok"))]
    /\ resp' = IF outcome = "ok" THEN resp
               ELSE [resp EXCEPT ![i] = Failure500(ChatMessage(outcome), MsgCreateFallback)]
    /\ UNCHANGED <<browser, running, closing, credsOk, now, activeClients, timers, conns, issued>>

\* `Group "${groupName}" created successfully!`
NodeCreatedMessage(groupName) == <<"Group", "\"">> \o groupName \o <<"\"", "created", "successfully!">>

\* lines 230-236: the success response; failedNumbers is left out when empty
NodeCreateGroupSuccess(r) ==
    LET base == [status |-> 200, success |-> TRUE,
                 message |-> NodeCreatedMessage(r.groupName),
                 membersAdded |-> Len(r.users),
                 totalRequested |-> Len(r.mobileNumbers)]
    IN  IF Len(r.failedNumbers) > 0
        THEN [f \in DOMAIN base \cup {"failedNumbers"} |->
                 IF f = "failedNumbers" THEN r.failedNumbers ELSE base[f]]
        ELSE base

\* lines 228-244: disconnect resolved; the success response, or the catch
\* block when disconnect threw
NodeCreateGroupDone(i, ok) ==
    /\ running
    /\ req[i].op = "create" /\ req[i].impl = "node" /\ req[i].pc = "disconnect_ok"
    /\ conns' = IF ok THEN Disconnected(req[i].client) ELSE conns
    /\ req' = [req EXCEPT ![i].pc = "done",
                          ![i].lib = Called(i, [call |-> "disconnect", ok |-> ok])]
    /\ resp' = [resp EXCEPT ![i] =
                  IF ok THEN NodeCreateGroupSuccess(req[i])
                  ELSE Failure500(MsgDisconnect, MsgCreateFallback)]
    /\ UNCHANGED <<browser, running, closing, credsOk, now, activeClients, timers, issued>>

(* --------------------- edge function: create_group -------------------- *)

\* lines 157-166: a user counts as soon as the library returns one
EdgeResolved(outcome) == outcome \in {"user", "partial"}

\* lines 129-138
EdgeCreateGroupStart(i, sessionString, groupName, mobileNumbers) ==
    EdgeStart(i, "create", [NoReq EXCEPT !.sessionString = sessionString,
                                         !.groupName = groupName,
                                         !.mobileNumbers = mobileNumbers])

\* lines 138-155: connect resolved; on success the loop starts
EdgeCreateGroupConnected(i, ok) ==
    /\ req[i].op = "create" /\ req[i].impl = "edge" /\ req[i].pc = "connect"
    /\ IF ok
       THEN /\ conns' = Connected(req[i].client)
            /\ req' = [req EXCEPT ![i].pc = AfterNumber(req[i], 0, <<>>),
                                  ![i].lib = Called(i, [call |-> "connect", ok |-> TRUE])]
            /\ UNCHANGED resp
       ELSE /\ req' = [req EXCEPT ![i].pc = "done",
                                  ![i].lib = Called(i, [call |-> "connect", ok |-> FALSE])]
            /\ \E e \in Rejections(MsgNetwork) : resp' = [resp EXCEPT ![i] = EdgeFailure(e)]
            /\ UNCHANGED conns
    /\ UNCHANGED <<browser, running, closing, credsOk, now, activeClients, timers, issued>>

\* lines 142-170: contacts.ImportContacts for number k + 1 resolved
EdgeCreateGroupResolved(i, outcome) ==
    /\ req[i].op = "create" /\ req[i].impl = "edge" /\ req[i].pc = "resolve"
    /\ LET phone == req[i].mobileNumbers[req[i].k + 1]
           users == IF EdgeResolved(outcome)
                    THEN Append(req[i].users, InputUser(phone, outcome = "user"))
                    ELSE req[i].users
       IN  req' = [req EXCEPT ![i].k = @ + 1,
                              ![i].users = users,
                              ![i].pc = AfterNumber(req[i], req[i].k + 1, users),
                              ![i].lib = Called(i, ImportCall(phone, outcome))]
    /\ UNCHANGED <<browser, running, closing, credsOk, now, activeClients, timers, conns, issued, resp>>

\* lines 172-181, 210-218: disconnect resolved; the response when no user was
\* found, or the catch block when disconnect threw
EdgeCreateGroupEmpty(i, ok) ==
    /\ req[i].op = "create" /\ req[i].impl = "edge" /\ req[i].pc = "disconnect_empty"
    /\ conns' = IF ok THEN Disconnected(req[i].client) ELSE conns
    /\ req' = [req EXCEPT ![i].pc = "done",
                          ![i].lib = Called(i, [call |-> "disconnect", ok |-> ok])]
    /\ \E e \in Rejections(MsgDisconnect) :
         resp' = [resp EXCEPT ![i] =
                  IF ok THEN [status |-> 400, success |-> FALSE, error |-> MsgNoUsers]
                  ELSE EdgeFailure(e)]
    /\ UNCHANGED <<browser, running, closing, credsOk, now, activeClients, timers, issued>>

\* lines 183-192, 210-218: messages.CreateChat resolved; on success disconnect
EdgeCreateGroupCreated(i, outcome) ==
    /\ req[i].op = "create" /\ req[i].impl = "edge" /\ req[i].pc = "createchat"
    /\ req' = [req EXCEPT ![i].pc = AfterCreateChat(outcome = "ok"),
                          ![i].lib = Called(i, CreateChatCall(req[i].users,
                                                              req[i].groupName,
                                                              outcome = "ok"))]
    /\ \E e \in Rejections(ChatMessage(outcome)) :
         resp' = IF outcome = "ok" THEN resp
                 ELSE [resp EXCEPT ![i] = EdgeFailure(e)]
    /\ UNCHANGED <<browser, running, closing, credsOk, now, activeClients, timers, conns, issued>>

\* `Group "${groupName}" created with ${users.length} members!`
EdgeCreatedMessage(groupName, n) ==
    <<"Group", "\"">> \o groupName \o <<"\"", "created", "with">> \o DecDigits(n) \o <<"members!">>

\* lines 192-202, 210-218: disconnect resolved; the success response, or the
\* catch block when disconnect threw
EdgeCreateGroupDone(i, ok) ==
    /\ req[i].op = "create" /\ req[i].impl = "edge" /\ req[i].pc = "disconnect_ok"
    /\ conns' = IF ok THEN Disconnected(req[i].client) ELSE conns
    /\ req' = [req EXCEPT ![i].pc = "done",
                          ![i].lib = Called(i, [call |-> "disconnect", ok |-> ok])]
    /\ \E e \in Rejections(MsgDisconnect) :
         resp' = [resp EXCEPT ![i] =
                  IF ok
                  THEN [status |-> 200, success |-> TRUE,
                        message |-> EdgeCreatedMessage(req[i].groupName, Len(req[i].users)),
                        membersAdded |-> Len(req[i].users),
                        totalRequested |-> Len(req[i].mobileNumbers)]
                  ELSE EdgeFailure(e)]
    /\ UNCHANGED <<browser, running, closing, credsOk, now, activeClients, timers, issued>>

(* --------------------------- specifications --------------------------- *)

\* what a caller can put in a request: the hashes and ids the gateway has
\* handed out, the codes that go with them, and values it never handed out
HashInputs == 0..Cardinality(issued)
CodeInputs(h) == {CodeFor(h), WrongCode}
ClientIdInputs ==
    {Undefined} \cup {resp[j].clientId : j \in {x \in DOMAIN resp : "clientId" \in DOMAIN resp[x]}}

\* the gateway of a run: the Node server and the edge function are two
\* deployments that share no state, and the requests of one run all go to
\* the one gateway the caller is set up with
Gateway(impl) == \A j \in DOMAIN req : req[j].impl \in {"none", impl}

NodeSendCode ==
    \/ \E i \in Slots, p \in PhoneInputs :
          Gateway("node") /\ NodeSendCodeStart(i, p)
    \/ \E i \in Slots, ok \in BOOLEAN : NodeSendCodeConnected(i, ok)
    \/ \E i \in Slots, ok \in BOOLEAN : NodeSendCodeResult(i, ok)

NodeVerifyCode ==
    \/ \E i \in Slots, p \in PhoneInputs, h \in HashInputs,
          id \in ClientIdInputs :
          \E c \in CodeInputs(h) : Gateway("node") /\ NodeVerifyCodeStart(i, p, h, c, id)
    \/ \E i \in Slots, ok \in BOOLEAN : NodeVerifyCodeConnected(i, ok)
    \/ \E i \in Slots, o \in SignInOutcomes : NodeVerifyCodeResult(i, o)

EdgeLogin ==
    \/ \E i \in Slots, p \in PhoneInputs : Gateway("edge") /\ EdgeSendCodeStart(i, p)
    \/ \E i \in Slots, p \in PhoneInputs, h \in HashInputs :
          \E c \in CodeInputs(h) : Gateway("edge") /\ EdgeVerifyCodeStart(i, p, h, c)
    \/ \E i \in Slots, text \in OtherBodies : EdgeOtherStart(i, text)
    \/ \E i \in Slots : EdgeBodyRead(i)
    \/ \E i \in Slots, ok \in BOOLEAN : EdgeConnected(i, ok)
    \/ \E i \in Slots, ok \in BOOLEAN : EdgeSendCodeResult(i, ok)
    \/ \E i \in Slots, ok \in BOOLEAN : EdgeSendCodeDone(i, ok)
    \/ \E i \in Slots, o \in SignInOutcomes : EdgeVerifyCodeResult(i, o)
    \/ \E i \in Slots, ok \in BOOLEAN : EdgeVerifyCodeDone(i, ok)

\* timers run, the disconnects they started settle in one of the ways given,
\* and time passes
ClockOf(settles) ==
    \/ \E t \in timers : EvictionTimer(t)
    \/ \E c \in closing, ok \in settles : EvictionDisconnected(c, ok)
    \/ \E d \in {1, EvictionMs} : Tick(d)

\* the Node server has received a request: it alone reads the clock and
\* owns timers, and time is followed from its first request on
NodeRuns == \E j \in DOMAIN req : req[j].impl = "node"

\* the login protocol of both gateways
Next == NodeSendCode \/ NodeVerifyCode \/ EdgeLogin \/ (NodeRuns /\ ClockOf(BOOLEAN))

Spec == Init /\ [][Next]_vars

\* the lists of at most n numbers
RECURSIVE NumberLists(_)
NumberLists(n) ==
    IF n = 0 THEN {<<>>}
    ELSE LET shorter == NumberLists(n - 1)
         IN  shorter \cup {Append(l, x) : l \in shorter, x \in NumberInputs}

\* the session strings a caller can hold: '' or the saved key of a client
SessionInputs == {0, 1}

\* create-group runs share no state; one request is followed to its response
GroupSlots == {1}

NodeCreateGroup ==
    \/ \E i \in GroupSlots, s \in SessionInputs, g \in GroupNames,
          m \in NumberLists(MaxNums) \cup {NoList} : NodeCreateGroupStart(i, s, g, m)
    \/ \E i \in GroupSlots, ok \in BOOLEAN : NodeCreateGroupConnected(i, ok)
    \/ \E i \in GroupSlots, o \in ImportOutcomes : NodeCreateGroupResolved(i, o)
    \/ \E i \in GroupSlots, ok \in BOOLEAN : NodeCreateGroupEmpty(i, ok)
    \/ \E i \in GroupSlots, o \in ChatOutcomes : NodeCreateGroupCreated(i, o)
    \/ \E i \in GroupSlots, ok \in BOOLEAN : NodeCreateGroupDone(i, ok)

EdgeCreateGroup ==
    \/ \E i \in GroupSlots, s \in SessionInputs, g \in GroupNames,
          m \in NumberLists(MaxNums) \cup {NoList} : EdgeCreateGroupStart(i, s, g, m)
    \/ \E i \in GroupSlots, text \in OtherBodies : EdgeOtherStart(i, text)
    \/ \E i \in GroupSlots : EdgeBodyRead(i)
    \/ \E i \in GroupSlots, ok \in BOOLEAN : EdgeCreateGroupConnected(i, ok)
    \/ \E i \in GroupSlots, o \in ImportOutcomes : EdgeCreateGroupResolved(i, o)
    \/ \E i \in GroupSlots, ok \in BOOLEAN : EdgeCreateGroupEmpty(i, ok)
    \/ \E i \in GroupSlots, o \in ChatOutcomes : EdgeCreateGroupCreated(i, o)
    \/ \E i \in GroupSlots, ok \in BOOLEAN : EdgeCreateGroupDone(i, ok)

\* group creation on both gateways
NextGroup == NodeCreateGroup \/ EdgeCreateGroup

SpecGroup == Init /\ [][NextGroup]_vars

\* the Node server alone, configured with its credentials, followed over
\* MaxNodeReq requests of one user: a send-code and two verify-code calls fit
NodeSlots == 1..MaxNodeReq

\* the phone number that user types
UserPhones == {<<"1", " ">>}

InitNode ==
    /\ credsOk = TRUE
    /\ now = 0
    /\ activeClients = [id \in {} |-> 0]
    /\ timers = {}
    /\ running = TRUE
    /\ closing = NoClosing
    /\ conns = <<>>
    /\ issued = {}
    /\ req = [i \in NodeSlots |-> NoReq]
    /\ resp = [i \in NodeSlots |-> NoResp]
    /\ NoBrowser

\* the code hashes that user was handed
UserHashes == 1..Cardinality(issued)

\* send-code and verify-code requests of that user in the slots S
NodeLoginOf(S) ==
    \/ \E i \in S, p \in UserPhones : NodeSendCodeStart(i, p)
    \/ \E i \in S, ok \in BOOLEAN : NodeSendCodeConnected(i, ok)
    \/ \E i \in S, ok \in BOOLEAN : NodeSendCodeResult(i, ok)
    \/ \E i \in S :
          /\ Free(i)
          /\ \E p \in UserPhones, h \in UserHashes, id \in ClientIdInputs :
                \E c \in CodeInputs(h) : NodeVerifyCodeStart(i, p, h, c, id)
    \/ \E i \in S, ok \in BOOLEAN : NodeVerifyCodeConnected(i, ok)
    \/ \E i \in S, o \in SignInOutcomes : NodeVerifyCodeResult(i, o)

NodeLogin == NodeLoginOf(NodeSlots)

\* the login protocol of the Node server, the disconnects of its timers
\* returning
NextNode == NodeLogin \/ ClockOf({TRUE})

SpecNode == InitNode /\ [][NextNode]_vars

\* a handle the server never handed out
UnknownHandle == MkClientId(<<"0">>, 0)

\* the login protocol of the Node server, a verify-code request carrying no
\* handle, the empty text, a handle never handed out, or one handed out,
\* whether it is pending, consumed or evicted by now; the disconnects of the
\* timers return and time is followed by the eviction window
NextLookup ==
    \/ \E i \in NodeSlots, p \in UserPhones : NodeSendCodeStart(i, p)
    \/ \E i \in NodeSlots, ok \in BOOLEAN : NodeSendCodeConnected(i, ok)
    \/ \E i \in NodeSlots, ok \in BOOLEAN : NodeSendCodeResult(i, ok)
    \/ \E i \in NodeSlots, p \in UserPhones, h \in UserHashes,
          id \in ClientIdInputs \cup {<<>>, UnknownHandle} :
          \E c \in CodeInputs(h) : NodeVerifyCodeStart(i, p, h, c, id)
    \/ \E i \in NodeSlots, ok \in BOOLEAN : NodeVerifyCodeConnected(i, ok)
    \/ \E i \in NodeSlots, o \in SignInOutcomes : NodeVerifyCodeResult(i, o)
    \/ \E t \in timers : EvictionTimer(t)
    \/ \E c \in closing : EvictionDisconnected(c, TRUE)
    \/ Tick(EvictionMs)

SpecLookup == InitNode /\ [][NextLookup]_vars

\* create-group requests in the slots S, for one session, one group name and
\* the number lists L
NodeGroupWith(S, L) ==
    \/ \E i \in S, s \in {1}, m \in L : NodeCreateGroupStart(i, s, <<"g">>, m)
    \/ \E i \in S, ok \in BOOLEAN : NodeCreateGroupConnected(i, ok)
    \/ \E i \in S, o \in ImportOutcomes : NodeCreateGroupResolved(i, o)
    \/ \E i \in S, ok \in BOOLEAN : NodeCreateGroupEmpty(i, ok)
    \/ \E i \in S, o \in ChatOutcomes : NodeCreateGroupCreated(i, o)
    \/ \E i \in S, ok \in BOOLEAN : NodeCreateGroupDone(i, ok)

\* send-code and verify-code requests whose body has no phoneNumber
NodeLoginNoPhone(S) ==
    \/ \E i \in S : NodeSendCodeStart(i, Undefined)
    \/ \E i \in S, h \in HashInputs, id \in ClientIdInputs :
          \E c \in CodeInputs(h) : NodeVerifyCodeStart(i, Undefined, h, c, id)

\* the three endpoints of the Node server and its timers, create-group
\* requests carrying at most one number
NextServer ==
    \/ NodeLoginOf(Slots)
    \/ NodeLoginNoPhone(Slots)
    \/ NodeGroupWith(Slots, NumberLists(1))
    \/ ClockOf(BOOLEAN)

SpecServer == Init /\ [][NextServer]_vars

\* the number lists of that user: none, one or two numbers
UserLists == {<<>>, << <<"1">> >>, << <<"1">>, <<"2", " ">> >>}

\* the three endpoints of the Node server, requests overlapping freely,
\* within the eviction window
NextAnswers ==
    NodeLoginOf(Slots) \/ NodeLoginNoPhone(Slots) \/ NodeGroupWith(Slots, UserLists)

SpecAnswers == Init /\ [][NextAnswers]_vars

\* requests arrive within the first milliseconds
Early == now < EvictionMs

\* a request is received by the Node server
NodeArrivals ==
    \/ \E i \in Slots, p \in UserPhones : Early /\ NodeSendCodeStart(i, p)
    \/ \E i \in Slots, p \in UserPhones, h \in HashInputs, id \in ClientIdInputs :
          \E c \in CodeInputs(h) : Early /\ NodeVerifyCodeStart(i, p, h, c, id)
    \/ \E i \in Slots, m \in NumberLists(1) :
          Early /\ NodeCreateGroupStart(i, 1, <<"g">>, m)

\* a library call a handler of the Node server awaits settles and the
\* handler runs on; a disconnect that is called returns
NodeContinues ==
    \/ \E i \in Slots, ok \in BOOLEAN : NodeSendCodeConnected(i, ok)
    \/ \E i \in Slots, ok \in BOOLEAN : NodeSendCodeResult(i, ok)
    \/ \E i \in Slots, ok \in BOOLEAN : NodeVerifyCodeConnected(i, ok)
    \/ \E i \in Slots, o \in SignInOutcomes : NodeVerifyCodeResult(i, o)
    \/ \E i \in Slots, ok \in BOOLEAN : NodeCreateGroupConnected(i, ok)
    \/ \E i \in Slots, o \in ImportOutcomes : NodeCreateGroupResolved(i, o)
    \/ \E i \in Slots : NodeCreateGroupEmpty(i, TRUE)
    \/ \E i \in Slots, o \in ChatOutcomes : NodeCreateGroupCreated(i, o)
    \/ \E i \in Slots : NodeCreateGroupDone(i, TRUE)

\* a due timer runs, and the disconnect it started returns
TimersRun ==
    \/ \E t \in timers : EvictionTimer(t)
    \/ \E c \in closing : EvictionDisconnected(c, TRUE)

\* the bound of the clock: the eviction window passes once no send-code is
\* in progress, so that every timer armed becomes due within the run
WindowReachable == \A j \in DOMAIN req : req[j].op = "send" => Responded(j)

\* a millisecond passes, or the eviction window
TimePasses == Tick(1) \/ (WindowReachable /\ Tick(EvictionMs))

NextDrain == NodeArrivals \/ NodeContinues \/ TimersRun \/ TimePasses

\* the Node server under a fair event loop: every library call settles,
\* every due timer runs, and time passes until every timer is due
SpecDrain ==
    /\ Init
    /\ [][NextDrain]_vars
    /\ WF_vars(NodeContinues)
    /\ WF_vars(TimersRun)
    /\ WF_vars(TimePasses)

(* --------------------------- browser client --------------------------- *)

MaxFetch == 4
\* file readers running at a time
MaxReaders == 2

MsgEnterUrl == <<"Please", "enter", "your", "backend", "URL">>
MsgUrlSaved == <<"Backend", "URL", "saved!">>
MsgEnterPhone == <<"Please", "enter", "your", "phone", "number">>
MsgOtpSent == <<"OTP", "sent", "to", "your", "Telegram!">>
MsgSendOtpFailed == <<"Failed", "to", "send", "OTP">>
MsgEnterOtp == <<"Please", "enter", "the", "OTP", "code">>
MsgAuthenticated == <<"Authenticated", "successfully!">>
MsgVerifyOtpFailed == <<"Failed", "to", "verify", "OTP">>
MsgEnterName == <<"Please", "enter", "a", "group", "name">>
MsgEnterNumbers == <<"Please", "enter", "mobile", "numbers">>
MsgNoValidNumbers == <<"No", "valid", "mobile", "numbers", "found">>
MsgFailedToFetch == <<"Failed", "to", "fetch">>

\* a trim that strips nothing
TrimNothing(s) == s

\* String.prototype.trim
Trim(s) ==
    LET kept == {n \in 1..Len(s) : s[n] \notin Whitespace}
    IN  IF kept = {} THEN <<>>
        ELSE SubSeq(s, CHOOSE n \in kept : \A m \in kept : n <= m,
                       CHOOSE n \in kept : \A m \in kept : n >= m)

\* the characters /[\n,]/ matches
Separators == {"\n", ","}

RECURSIVE SkipSeparators(_)
\* the rest of a text after the run of separators it starts with
SkipSeparators(s) ==
    IF s # <<>> /\ Head(s) \in Separators THEN SkipSeparators(Tail(s)) ELSE s

RECURSIVE SplitFrom(_, _)
\* the pieces of the rest s of a text, cur being the piece read so far
SplitFrom(s, cur) ==
    IF s = <<>> THEN <<cur>>
    ELSE IF Head(s) \in Separators
         THEN <<cur>> \o SplitFrom(SkipSeparators(Tail(s)), <<>>)
         ELSE SplitFrom(Tail(s), Append(cur, Head(s)))

\* text.split(/[\n,]+/)
Split(text) == SplitFrom(text, <<>>)

\* a parser that forgets to trim the pieces
parsedNumbersUntrimmed(text) ==
    SelectSeq(Split(text), LAMBDA t : Len(t) > 0)

\* lines 204-207 (and 160-163): .split(/[\n,]+/).map(n => n.trim()).filter(n => n.length > 0)
parsedNumbers(text) ==
    LET pieces == Split(text)
        trimmed == [n \in 1..Len(pieces) |-> Trim(pieces[n])]
    IN  SelectSeq(trimmed, LAMBDA t : Len(t) > 0)

\* toast.error(text), toast.success(text)
Toast(kind, text) == [kind |-> kind, text |-> text]

\* what the user types into the field of each name
Typed(name) ==
    CASE name = "backendUrl" -> {<<" ">>, <<" ", "u">>}
      [] name = "phoneNumber" -> {<<" ">>, <<"1", " ">>, <<"2">>}
      [] name = "otpCode" -> {<<" ">>, <<"7">>}
      [] name = "groupName" -> {<<" ">>, <<"g", " ">>}
      [] name = "mobileNumbers" -> {<<",", "\n">>, <<"1", ",", " ", "1", "\n">>}

\* lines 243-515: the fields each step renders
FieldsOf(step) ==
    CASE step = "setup" -> {"backendUrl"}
      [] step = "phone" -> {"phoneNumber"}
      [] step = "otp" -> {"otpCode"}
      [] step = "group" -> {"groupName", "mobileNumbers"}

\* a URL saved by an earlier visit
SavedUrls == {<<>>, <<"u">>}

InitClient ==
    /\ credsOk = TRUE
    /\ now = 0
    /\ activeClients = [id \in {} |-> 0]
    /\ timers = {}
    /\ running = TRUE
    /\ closing = NoClosing
    /\ conns = <<>>
    /\ issued = {}
    /\ req = [i \in Slots |-> NoReq]
    /\ resp = [i \in Slots |-> NoResp]
    /\ localStorage \in SavedUrls
    /\ form = NewForm(localStorage)
    /\ http = NoHttp

\* the server's side, which a step of the client leaves alone
server == <<credsOk, now, running, activeClients, timers, closing, conns, issued, req, resp>>

\* lines 40-47: the effect of the first render
Mount ==
    /\ ~form.mounted
    /\ form' = IF Truthy(localStorage)
               THEN [form EXCEPT !.mounted = TRUE,
                                 !.formData.backendUrl = localStorage,
                                 !.step = "phone"]
               ELSE [form EXCEPT !.mounted = TRUE]
    /\ UNCHANGED <<server, localStorage, http>>

\* lines 49-52: the user edits the field of a name
handleInputChange(name, value) ==
    /\ form.mounted
    /\ name \in FieldsOf(form.step)
    /\ form' = [form EXCEPT !.formData[name] = value]
    /\ UNCHANGED <<server, localStorage, http>>

\* the sequence without its n-th element
RemoveAt(seq, n) == SubSeq(seq, 1, n - 1) \o SubSeq(seq, n + 1, Len(seq))

\* lines 54-64: the file dialog closes; with a file picked (0: none, the
\* dialog was cancelled) the file is kept and a new FileReader starts
\* reading it, beside the readers that are still running
handleImageChange(file) ==
    /\ form.mounted
    /\ form.step = "group"
    /\ Len(form.readers) < MaxReaders
    /\ form' = IF file # 0
               THEN [form EXCEPT !.formData.groupImage = file,
                                 !.readers = Append(@, file)]
               ELSE form
    /\ UNCHANGED <<server, localStorage, http>>

\* lines 59-61: onloadend of the n-th running reader; reader.result is the
\* data of its own file, or null when the read failed
ReaderLoaded(n, ok) ==
    /\ n \in 1..Len(form.readers)
    /\ form' = [form EXCEPT !.imagePreview = IF ok THEN form.readers[n] ELSE 0,
                            !.readers = RemoveAt(@, n)]
    /\ UNCHANGED <<server, localStorage, http>>

\* a Save button that stores whatever the field holds
handleSaveBackendUrlRaw ==
    /\ form.mounted
    /\ form.step = "setup"
    /\ localStorage' = form.formData.backendUrl
    /\ form' = [form EXCEPT !.toast = Toast("success", MsgUrlSaved),
                            !.step = "phone"]
    /\ UNCHANGED <<server, http>>

\* lines 66-74: the Save button of step setup
handleSaveBackendUrl ==
    /\ form.mounted
    /\ form.step = "setup"
    /\ IF Trim(form.formData.backendUrl) = <<>>
       THEN /\ form' = [form EXCEPT !.toast = Toast("error", MsgEnterUrl)]
            /\ UNCHANGED localStorage
       ELSE /\ localStorage' = Trim(form.formData.backendUrl)
            /\ form' = [form EXCEPT !.toast = Toast("success", MsgUrlSaved),
                                    !.step = "phone"]
    /\ UNCHANGED <<server, http>>

\* fetch(`${backendUrl}/api/...`, {method: 'POST', body}) starts
Fetch(endpoint, body) ==
    [http EXCEPT !.pending = [endpoint |-> endpoint, url |-> form.formData.backendUrl,
                              body |-> body],
                 !.sent = http.sent + 1]

\* the fetch in flight settled with answer r
Settled(r) == [http EXCEPT !.pending = NoFetch, !.response = r]

\* response.ok
Ok(r) == r.status \in 200..299

\* the fetch, or response.json(), threw
Thrown(r) == "thrown" \in DOMAIN r

\* !response.ok || !data.success
Failed(r) == ~Ok(r) \/ ~("success" \in DOMAIN r /\ r.success)

\* a catch block showing its own text whatever the server said
ErrorMessageOwn(r, fallback) == fallback

\* the message the catch block shows: the thrown error's, or data.error || fallback
ErrorMessage(r, fallback) ==
    IF Thrown(r) THEN r.message
    ELSE IF "error" \in DOMAIN r /\ r.error # <<>> THEN r.error ELSE fallback

\* fetch rejects
FetchThrows == {[thrown |-> TRUE, message |-> MsgFailedToFetch]}

\* the answers of the Node server to /api/send-code with the given body:
\* its handle is made of the stripped phone number of the request
SendCodeAnswers(body) ==
    {[status |-> 200, success |-> TRUE, phoneCodeHash |-> h,
      clientId |-> MkClientId(CleanPhone(body.phoneNumber), h)] : h \in {1, 2}}
    \cup {Failure500(MsgPhoneInvalid, MsgSendFallback)} \cup FetchThrows

\* the answers of the Node server to /api/verify-code
VerifyCodeAnswers ==
    {[status |-> 200, success |-> TRUE, sessionString |-> s] : s \in {1, 2}}
    \cup {NodeVerifyFailure(MsgPassword), NodeVerifyFailure(MsgCodeInvalid)}
    \cup FetchThrows

RECURSIVE Picked(_, _, _)
\* the members of seq whose place has the mark given, in order
Picked(seq, marks, mark) ==
    IF seq = <<>> THEN <<>>
    ELSE LET rest == Picked(Tail(seq), Tail(marks), mark)
         IN  IF Head(marks) = mark THEN <<Head(seq)>> \o rest ELSE rest

\* part_002 lines 166-236: the answer of the Node server to a create-group
\* body whose numbers resolved as marked, connect, CreateChat and
\* disconnect having returned
CreateGroupAnswer(body, resolved) ==
    LET clean == [k \in 1..Len(body.mobileNumbers) |-> CleanPhone(body.mobileNumbers[k])]
        users == Picked(clean, resolved, TRUE)
        failedNumbers == Picked(clean, resolved, FALSE)
    IN  IF users = <<>>
        THEN [status |-> 400, success |-> FALSE, error |-> MsgNoUsers,
              failedNumbers |-> failedNumbers]
        ELSE NodeCreateGroupSuccess([groupName |-> body.groupName,
                                     mobileNumbers |-> body.mobileNumbers,
                                     users |-> users,
                                     failedNumbers |-> failedNumbers])

\* the answers of the Node server to /api/create-group with the given body:
\* one for each way its numbers resolve, and the failure of CreateChat
CreateGroupAnswers(body) ==
    {CreateGroupAnswer(body, resolved) :
        resolved \in [1..Len(body.mobileNumbers) -> BOOLEAN]}
    \cup {Failure500(MsgChatFailed, MsgCreateFallback)}
    \cup FetchThrows

\* a Send OTP button that is not disabled while a request is in flight
handleSendCodeNotDisabled ==
    /\ form.mounted
    /\ form.step = "phone"
    /\ IF Trim(form.formData.phoneNumber) = <<>>
       THEN /\ form' = [form EXCEPT !.toast = Toast("error", MsgEnterPhone)]
            /\ UNCHANGED http
       ELSE /\ http.sent < MaxFetch
            /\ form' = [form EXCEPT !.isLoading = TRUE]
            /\ http' = Fetch("send-code",
                             [phoneNumber |-> Trim(form.formData.phoneNumber)])
    /\ UNCHANGED <<server, localStorage>>

\* lines 77-89, button 309-313: the Send OTP button, up to the fetch
handleSendCode ==
    /\ form.mounted
    /\ form.step = "phone"
    /\ ~form.isLoading
    /\ IF Trim(form.formData.phoneNumber) = <<>>
       THEN /\ form' = [form EXCEPT !.toast = Toast("error", MsgEnterPhone)]
            /\ UNCHANGED http
       ELSE /\ http.sent < MaxFetch
            /\ form' = [form EXCEPT !.isLoading = TRUE]
            /\ http' = Fetch("send-code",
                             [phoneNumber |-> Trim(form.formData.phoneNumber)])
    /\ UNCHANGED <<server, localStorage>>

\* lines 91-105: the answer of /api/send-code arrived, or the fetch threw
handleSendCodeAnswered(r) ==
    /\ http.pending.endpoint = "send-code"
    /\ IF Thrown(r) \/ Failed(r)
       THEN form' = [form EXCEPT !.toast = Toast("error", ErrorMessage(r, MsgSendOtpFailed)),
                                 !.isLoading = FALSE]
       ELSE form' = [form EXCEPT !.phoneCodeHash = r.phoneCodeHash,
                                 !.clientId = r.clientId,
                                 !.step = "otp",
                                 !.toast = Toast("success", MsgOtpSent),
                                 !.isLoading = FALSE]
    /\ http' = Settled(r)
    /\ UNCHANGED <<server, localStorage>>

\* line 328: the Change Backend URL button of step phone
ChangeBackendUrl ==
    /\ form.mounted
    /\ form.step = "phone"
    /\ form' = [form EXCEPT !.step = "setup"]
    /\ UNCHANGED <<server, localStorage, http>>

\* handleVerifyCode sending the body of the older client, without the handle
handleVerifyCodeNoHandle ==
    /\ form.mounted
    /\ form.step = "otp"
    /\ ~form.isLoading
    /\ IF Trim(form.formData.otpCode) = <<>>
       THEN /\ form' = [form EXCEPT !.toast = Toast("error", MsgEnterOtp)]
            /\ UNCHANGED http
       ELSE /\ http.sent < MaxFetch
            /\ form' = [form EXCEPT !.isLoading = TRUE]
            /\ http' = Fetch("verify-code",
                             [phoneNumber |-> Trim(form.formData.phoneNumber),
                              phoneCodeHash |-> form.phoneCodeHash,
                              code |-> Trim(form.formData.otpCode),
                              clientId |-> <<>>])
    /\ UNCHANGED <<server, localStorage>>

\* lines 109-126, button 363-367: the Verify button, up to the fetch
handleVerifyCode ==
    /\ form.mounted
    /\ form.step = "otp"
    /\ ~form.isLoading
    /\ IF Trim(form.formData.otpCode) = <<>>
       THEN /\ form' = [form EXCEPT !.toast = Toast("error", MsgEnterOtp)]
            /\ UNCHANGED http
       ELSE /\ http.sent < MaxFetch
            /\ form' = [form EXCEPT !.isLoading = TRUE]
            /\ http' = Fetch("verify-code",
                             [phoneNumber |-> Trim(form.formData.phoneNumber),
                              phoneCodeHash |-> form.phoneCodeHash,
                              code |-> Trim(form.formData.otpCode),
                              clientId |-> form.clientId])
    /\ UNCHANGED <<server, localStorage>>

\* handleVerifyCodeAnswered moving on to step group whatever the answer
handleVerifyCodeAnsweredMovesOn(r) ==
    /\ http.pending.endpoint = "verify-code"
    /\ IF Thrown(r) \/ Failed(r)
       THEN form' = [form EXCEPT !.toast = Toast("error", ErrorMessage(r, MsgVerifyOtpFailed)),
                                 !.step = "group",
                                 !.isLoading = FALSE]
       ELSE form' = [form EXCEPT !.sessionString = r.sessionString,
                                 !.step = "group",
                                 !.toast = Toast("success", MsgAuthenticated),
                                 !.isLoading = FALSE]
    /\ http' = Settled(r)
    /\ UNCHANGED <<server, localStorage>>

\* lines 128-141: the answer of /api/verify-code arrived, or the fetch threw
handleVerifyCodeAnswered(r) ==
    /\ http.pending.endpoint = "verify-code"
    /\ IF Thrown(r) \/ Failed(r)
       THEN form' = [form EXCEPT !.toast = Toast("error", ErrorMessage(r, MsgVerifyOtpFailed)),
                                 !.isLoading = FALSE]
       ELSE form' = [form EXCEPT !.sessionString = r.sessionString,
                                 !.step = "group",
                                 !.toast = Toast("success", MsgAuthenticated),
                                 !.isLoading = FALSE]
    /\ http' = Settled(r)
    /\ UNCHANGED <<server, localStorage>>

\* line 382: the Change phone number button of step otp
ChangePhoneNumber ==
    /\ form.mounted
    /\ form.step = "otp"
    /\ form' = [form EXCEPT !.step = "phone"]
    /\ UNCHANGED <<server, localStorage, http>>

\* lines 145-177, 196-201, button 508-514: the form of step group is
\* submitted, up to the fetch
handleCreateGroup ==
    /\ form.mounted
    /\ form.step = "group"
    /\ ~form.isLoading
    /\ LET numbers == parsedNumbers(form.formData.mobileNumbers)
       IN  IF Trim(form.formData.groupName) = <<>>
           THEN /\ form' = [form EXCEPT !.toast = Toast("error", MsgEnterName)]
                /\ UNCHANGED http
           ELSE IF Trim(form.formData.mobileNumbers) = <<>>
           THEN /\ form' = [form EXCEPT !.toast = Toast("error", MsgEnterNumbers)]
                /\ UNCHANGED http
           ELSE IF Len(numbers) = 0
           THEN /\ form' = [form EXCEPT !.status = "error",
                                        !.toast = Toast("error", MsgNoValidNumbers)]
                /\ UNCHANGED http
           ELSE /\ http.sent < MaxFetch
                /\ form' = [form EXCEPT !.isLoading = TRUE, !.status = "idle"]
                /\ http' = Fetch("create-group",
                                 [sessionString |-> form.sessionString,
                                  groupName |-> form.formData.groupName,
                                  mobileNumbers |-> numbers])
    /\ UNCHANGED <<server, localStorage>>

\* handleCreateGroupAnswered resetting the whole form on success instead of
\* the three group fields
handleCreateGroupAnsweredResetsAll(r) ==
    /\ http.pending.endpoint = "create-group"
    /\ IF Thrown(r) \/ Failed(r)
       THEN form' = [form EXCEPT !.status = "error",
                                 !.toast = Toast("error", ErrorMessage(r, MsgCreateFallback)),
                                 !.isLoading = FALSE]
       ELSE form' = [form EXCEPT !.status = "success",
                                 !.toast = Toast("success", r.message),
                                 !.formData = NewForm(<<>>).formData,
                                 !.imagePreview = 0,
                                 !.isLoading = FALSE]
    /\ http' = Settled(r)
    /\ UNCHANGED <<server, localStorage>>

\* lines 179-201: the answer of /api/create-group arrived, or the fetch threw
handleCreateGroupAnswered(r) ==
    /\ http.pending.endpoint = "create-group"
    /\ IF Thrown(r) \/ Failed(r)
       THEN form' = [form EXCEPT !.status = "error",
                                 !.toast = Toast("error", ErrorMessage(r, MsgCreateFallback)),
                                 !.isLoading = FALSE]
       ELSE form' = [form EXCEPT !.status = "success",
                                 !.toast = Toast("success", r.message),
                                 !.formData.groupName = <<>>,
                                 !.formData.mobileNumbers = <<>>,
                                 !.formData.groupImage = 0,
                                 !.imagePreview = 0,
                                 !.isLoading = FALSE]
    /\ http' = Settled(r)
    /\ UNCHANGED <<server, localStorage>>

\* the answers the send-code request in flight can get
PendingCodeAnswers ==
    IF http.pending.endpoint = "send-code"
    THEN SendCodeAnswers(http.pending.body) ELSE {}

\* the answers the create-group request in flight can get
PendingGroupAnswers ==
    IF http.pending.endpoint = "create-group"
    THEN CreateGroupAnswers(http.pending.body) ELSE {}

\* what the file dialog returns: no file (cancelled), or the file
Files == {0, 1}

FieldNames == {"backendUrl", "phoneNumber", "otpCode", "groupName", "mobileNumbers"}

NextClient ==
    \/ Mount
    \/ \E name \in FieldNames : \E value \in Typed(name) : handleInputChange(name, value)
    \/ \E file \in Files : handleImageChange(file)
    \/ \E n \in 1..MaxReaders, ok \in BOOLEAN : ReaderLoaded(n, ok)
    \/ handleSaveBackendUrl
    \/ ChangeBackendUrl
    \/ handleSendCode
    \/ \E r \in PendingCodeAnswers : handleSendCodeAnswered(r)
    \/ ChangePhoneNumber
    \/ handleVerifyCode
    \/ \E r \in VerifyCodeAnswers : handleVerifyCodeAnswered(r)
    \/ handleCreateGroup
    \/ \E r \in PendingGroupAnswers : handleCreateGroupAnswered(r)

SpecClient == InitClient /\ [][NextClient]_vars

(* ------------------------ the member-text parser --------------------- *)

MaxText == 4

\* the characters of a member text: digits, blank, comma, newline
TextChars == {"1", "2", " ", "\t", ",", "\n"}

\* every member text of at most MaxText characters
MemberTexts == UNION {[1..n -> TextChars] : n \in 0..MaxText}

\* the client signed in, in step group, a group name entered and any member
\* text in the textarea
InitParser ==
    /\ credsOk = TRUE
    /\ now = 0
    /\ activeClients = [id \in {} |-> 0]
    /\ timers = {}
    /\ running = TRUE
    /\ closing = NoClosing
    /\ conns = <<>>
    /\ issued = {}
    /\ req = [i \in Slots |-> NoReq]
    /\ resp = [i \in Slots |-> NoResp]
    /\ localStorage = <<"u">>
    /\ \E text \in MemberTexts :
           form = [NewForm(<<"u">>) EXCEPT !.mounted = TRUE,
                                           !.step = "group",
                                           !.sessionString = 1,
                                           !.formData.groupName = <<"g">>,
                                           !.formData.mobileNumbers = text]
    /\ http = NoHttp

NextParser ==
    \/ handleCreateGroup
    \/ \E r \in PendingGroupAnswers : handleCreateGroupAnswered(r)

SpecParser == InitParser /\ [][NextParser]_vars

(* ------------------------------ properties ---------------------------- *)

\* the calls of one kind a request made to the library, in order
CallsOf(i, kind) == SelectSeq(req[i].lib, LAMBDA e : e.call = kind)

\* the request made an auth.SignIn call that returned, for its own code-hash
\* and code and for its own phone number, whitespace aside
SignedIn(i) ==
    \E n \in 1..Len(req[i].lib) :
        LET e == req[i].lib[n]
        IN  /\ e.call = "SignIn"
            /\ e.ok
            /\ CleanPhone(e.phoneNumber) = CleanPhone(req[i].phoneNumber)
            /\ e.phoneCodeHash = req[i].phoneCodeHash
            /\ e.phoneCode = req[i].code

HasToken(i) == "sessionString" \in DOMAIN resp[i]

\* C1: a verify-code response is a success with a session token only if the
\* sign-in call of that same request returned; when it did not, the response
\* is a failure without a session token (Node server and edge function).
VerifyOnlyAfterSignIn ==
    \A i \in Slots :
        (req[i].op = "verify" /\ Responded(i)) =>
            /\ (resp[i].success \/ HasToken(i)) => SignedIn(i)
            /\ ~SignedIn(i) => (~resp[i].success /\ ~HasToken(i))

\* C1 witness: a verify-code request got a success response with a token
VerifySucceeded ==
    \E i \in Slots : req[i].op = "verify" /\ Responded(i) /\ resp[i].success /\ HasToken(i)

\* send-code request i succeeded and verify-code request j follows it at once:
\* same phone number, the handle and code-hash of i's response, the entry of i
\* still stored
FollowsAtOnce(i, j) ==
    /\ req[i].op = "send" /\ req[i].impl = "node" /\ Responded(i) /\ resp[i].success
    /\ req[j].op = "verify" /\ req[j].impl = "node"
    /\ req[j].phoneNumber = req[i].phoneNumber
    /\ req[j].phoneCodeHash = resp[i].phoneCodeHash
    /\ req[j].clientId = resp[i].clientId
    /\ req[j].stored /\ req[j].client = req[i].client

CorrectCode(j) == req[j].code = CodeFor(req[j].phoneCodeHash)

\* C2 as claimed: send-code followed at once by verify-code succeeds with a
\* non-empty token when the code is correct, and fails without a token when
\* it is not.
CorrectCodeAlwaysSucceeds ==
    \A i, j \in Slots :
        (FollowsAtOnce(i, j) /\ Responded(j)) =>
            IF CorrectCode(j)
            THEN resp[j].success /\ HasToken(j) /\ resp[j].sessionString # 0
            ELSE ~resp[j].success /\ ~HasToken(j)

\* C2 amended: with the correct code the response is a success with a
\* non-empty token exactly when the library's sign-in call returns, and a
\* failure without a token when it throws; with an incorrect code the response
\* is always a failure without a token.
CorrectCodeSucceedsUnlessSignInThrows ==
    \A i, j \in Slots :
        (FollowsAtOnce(i, j) /\ Responded(j)) =>
            IF CorrectCode(j) /\ SignedIn(j)
            THEN resp[j].success /\ HasToken(j) /\ resp[j].sessionString # 0
            ELSE ~resp[j].success /\ ~HasToken(j)

\* C2 witness: a verify-code that followed its send-code at once with the
\* correct code got its token
FollowUpSucceeded ==
    \E i, j \in Slots :
        FollowsAtOnce(i, j) /\ Responded(j) /\ CorrectCode(j) /\ resp[j].success

HandedOut(i) == req[i].op = "send" /\ Responded(i) /\ "clientId" \in DOMAIN resp[i]

\* C3 as claimed: the handles of two send-code responses differ.
HandlesUnique ==
    \A i, j \in Slots :
        (i # j /\ HandedOut(i) /\ HandedOut(j)) => resp[i].clientId # resp[j].clientId

\* send-code request i opened the connection that verify-code request j took
\* from the registry
StoredBy(i, j) ==
    /\ req[i].op = "send" /\ req[i].impl = "node"
    /\ req[j].op = "verify" /\ req[j].impl = "node" /\ req[j].stored
    /\ req[j].client = req[i].client

\* C4 as claimed: verify-code invokes sign-in on a stored connection only for
\* the phone number send-code recorded with it.
StoredConnectionSamePhone ==
    \A i, j \in Slots :
        StoredBy(i, j) => CleanPhone(req[j].phoneNumber) = req[i].cleanPhone

\* the handler counts the answer of contacts.ImportContacts as a user: the
\* Node server needs id and access hash, the edge function any returned user
Accepted(i, outcome) ==
    IF req[i].impl = "node" THEN outcome = "user" ELSE outcome \in {"user", "partial"}

\* the number as the handler passes it to the library
Passed(i, phone) == IF req[i].impl = "node" THEN CleanPhone(phone) ELSE phone

Creates == {i \in Slots : req[i].op = "create"}

\* the positions of the submitted list whose import was accepted, or was not
ResolvedAt(i) ==
    {n \in 1..Len(CallsOf(i, "ImportContacts")) :
        Accepted(i, CallsOf(i, "ImportContacts")[n].outcome)}
FailedAt(i) == (1..Len(CallsOf(i, "ImportContacts"))) \ ResolvedAt(i)

RECURSIVE Pick(_, _, _)
\* the elements of list at the positions in at, from position n on, in order
Pick(list, at, n) ==
    IF n > Len(list) THEN <<>>
    ELSE IF n \in at THEN <<list[n]>> \o Pick(list, at, n + 1)
    ELSE Pick(list, at, n + 1)

\* f applied to each element
MapSeq(list, f(_)) == [n \in 1..Len(list) |-> f(list[n])]

UserIdOf(u) == u.userId

\* C5: a create-group call in which no number resolves to a user never
\* invokes messages.CreateChat and is answered with success:false.
NoGroupWithoutMembers ==
    \A i \in Creates :
        ResolvedAt(i) = {} =>
            /\ Len(CallsOf(i, "CreateChat")) = 0
            /\ req[i].pc # "createchat"
            /\ Responded(i) => ~resp[i].success

\* C5 witness: every number of a non-empty list was tried, none resolved, and
\* the request was answered
NothingResolved ==
    \E i \in Creates :
        /\ Len(req[i].mobileNumbers) > 0
        /\ Len(CallsOf(i, "ImportContacts")) = Len(req[i].mobileNumbers)
        /\ ResolvedAt(i) = {}
        /\ Responded(i) /\ resp[i].status = 400

\* a Node create-group call in which a number resolved and CreateChat succeeded
NodeGroupCreated(i) ==
    /\ req[i].op = "create" /\ req[i].impl = "node" /\ Responded(i)
    /\ ResolvedAt(i) # {}
    /\ \E n \in 1..Len(req[i].lib) : req[i].lib[n].call = "CreateChat" /\ req[i].lib[n].ok

\* the counts and the failed numbers a success response must carry, the
\* failed numbers being given
SuccessReport(i, failed) ==
    /\ resp[i].success
    /\ resp[i].membersAdded = Cardinality(ResolvedAt(i))
    /\ resp[i].totalRequested = Len(req[i].mobileNumbers)
    /\ IF failed = <<>> THEN "failedNumbers" \notin DOMAIN resp[i]
       ELSE "failedNumbers" \in DOMAIN resp[i] /\ resp[i].failedNumbers = failed
    /\ resp[i].membersAdded + Len(failed) = resp[i].totalRequested

\* C6 as claimed: a create-group call in which a number resolved and
\* messages.CreateChat returned is answered with a success that has
\* membersAdded = the count of resolved numbers, totalRequested = the length
\* of the submitted list and failedNumbers = the submitted numbers that did
\* not resolve, as submitted and in submission order (left out when none
\* failed).
ReportsSubmittedNumbers ==
    \A i \in Slots :
        NodeGroupCreated(i) => SuccessReport(i, Pick(req[i].mobileNumbers, FailedAt(i), 1))

\* C7: when create-group creates a group, messages.CreateChat was invoked
\* exactly once, titled groupName, with one member per submitted number that
\* resolved, in submission order, and none for a number that did not.
GroupHasExactlyResolvedMembers ==
    \A i \in Creates :
        LET chats == CallsOf(i, "CreateChat")
        IN  /\ Len(chats) <= 1
            /\ \A n \in 1..Len(chats) :
                 /\ chats[n].title = req[i].groupName
                 /\ MapSeq(chats[n].users, UserIdOf)
                      = MapSeq(Pick(req[i].mobileNumbers, ResolvedAt(i), 1), CleanPhone)
                 /\ Len(CallsOf(i, "ImportContacts")) = Len(req[i].mobileNumbers)

\* C7 witness: a group was created from a list of which one number resolved
\* and one did not
GroupOfSomeMembers ==
    \E i \in Creates :
        /\ \E n \in 1..Len(req[i].lib) : req[i].lib[n].call = "CreateChat" /\ req[i].lib[n].ok
        /\ ResolvedAt(i) # {} /\ FailedAt(i) # {}

\* the handler is past connect and past the loop over the numbers
PastLoop(i) ==
    /\ Len(req[i].lib) > 0 /\ req[i].lib[1].call = "connect" /\ req[i].lib[1].ok
    /\ req[i].pc # "resolve"

\* C8: the numbers are tried one at a time in submission order, each exactly
\* once: at any moment the imports made are those of the first k numbers, at
\* most one more is awaited, and whatever the outcomes (nothing found, a
\* throw) the loop ends only when every number was tried.
ResolvesEachNumberInOrder ==
    \A i \in Creates :
        LET tried == CallsOf(i, "ImportContacts")
        IN  /\ Len(tried) = req[i].k
            /\ Len(tried) <= Len(req[i].mobileNumbers)
            /\ \A n \in 1..Len(tried) : tried[n].phone = Passed(i, req[i].mobileNumbers[n])
            /\ req[i].pc = "resolve" => Len(tried) < Len(req[i].mobileNumbers)
            /\ PastLoop(i) => Len(tried) = Len(req[i].mobileNumbers)

\* C8 witness: the first number threw, the second was still tried
TriedAfterThrow ==
    \E i \in Creates :
        LET tried == CallsOf(i, "ImportContacts")
        IN  Len(tried) = 2 /\ tried[1].outcome = "throw" /\ PastLoop(i)

\* C9 as claimed: the failure response for zero resolved numbers carries
\* failedNumbers with one entry per submitted number, in submission order.
FailureListsEveryNumber ==
    \A i \in Creates :
        (Responded(i) /\ resp[i].status = 400 /\ ResolvedAt(i) = {}
            /\ Len(req[i].mobileNumbers) > 0) =>
            /\ "failedNumbers" \in DOMAIN resp[i]
            /\ resp[i].failedNumbers = MapSeq(req[i].mobileNumbers, CleanPhone)

\* messages.CreateChat threw in request i
ChatFailed(i) ==
    \E n \in 1..Len(req[i].lib) : req[i].lib[n].call = "CreateChat" /\ ~req[i].lib[n].ok

\* C10: when messages.CreateChat fails after a member was resolved, the
\* response is success:false with an error field (on the Node server never an
\* empty one), the handler is finished, and CreateChat is not invoked again.
FailedChatFailsRequest ==
    \A i \in Creates :
        ChatFailed(i) =>
            /\ ResolvedAt(i) # {}
            /\ Len(CallsOf(i, "CreateChat")) = 1
            /\ req[i].pc = "done"
            /\ Responded(i) /\ ~resp[i].success /\ resp[i].status = 500
            /\ "error" \in DOMAIN resp[i]
            /\ req[i].impl = "node" => resp[i].error # <<>>

\* C10 witness: a Node create-group call whose CreateChat threw was answered
ChatFailureAnswered ==
    \E i \in Creates : req[i].impl = "node" /\ ChatFailed(i) /\ Responded(i)

(* ------------------- properties of the client registry ----------------- *)

\* the eviction timer armed by send-code request i has run
TimerFired(i) == HandedOut(i) /\ ~\E t \in timers : t.by = i

\* a verify-code request carrying the handle of send-code request i succeeded
VerifiedWith(i) ==
    \E j \in DOMAIN req :
        /\ req[j].op = "verify" /\ req[j].impl = "node"
        /\ req[j].clientId = resp[i].clientId
        /\ Responded(j) /\ resp[j].success

\* the connection is closed, or a disconnect of it was called and is
\* pending
Disconnecting(c) == conns[c].state = "closed" \/ c \in closing

\* C11 as claimed: when the eviction timer of a pending login has run and no
\* verify-code succeeded with its handle, the connection that login opened is
\* disconnected and no entry is left under its handle.
EvictionClosesOwnLogin ==
    \A i \in DOMAIN req :
        (TimerFired(i) /\ ~VerifiedWith(i)) =>
            /\ Disconnecting(req[i].client)
            /\ ~Has(resp[i].clientId)

\* an eviction timer armed for the handle has run
TimerRanFor(id) == \E i \in DOMAIN req : TimerFired(i) /\ resp[i].clientId = id

\* the connections of the pending logins that were handed out under the handle
ConnectionsOf(id) ==
    {req[i].client : i \in {x \in DOMAIN req : HandedOut(x) /\ resp[x].clientId = id}}

\* verify-code request j is received in this step
Received(j) == req[j].op = "none" /\ req'[j].op = "verify" /\ req'[j].impl = "node"

\* C12: a verify-code request received after an eviction timer has run for
\* its handle does not take a connection from the registry and does not
\* invoke sign-in on a connection of a pending login with that handle.
NoSignInAfterEviction ==
    [][\A j \in DOMAIN req :
          (Received(j) /\ TimerRanFor(req'[j].clientId)) =>
              /\ ~req'[j].stored
              /\ req'[j].client \notin ConnectionsOf(req'[j].clientId)]_vars

\* C12 witness: a verify-code request carrying the handle of an evicted
\* pending login is working on a connection of its own
FellBackAfterEviction ==
    \E i, j \in DOMAIN req :
        /\ TimerFired(i) /\ ~VerifiedWith(i)
        /\ conns[req[i].client].state = "closed"
        /\ req[j].op = "verify" /\ req[j].clientId = resp[i].clientId
        /\ ~req[j].stored /\ req[j].client # 0 /\ req[j].client # req[i].client

\* verify-code request k of the Node server has answered success
Verified(k) ==
    req[k].op = "verify" /\ req[k].impl = "node" /\ Responded(k) /\ resp[k].success

\* verify-code request k answers success in this step
Succeeds(k) ==
    /\ req[k].op = "verify" /\ req[k].impl = "node"
    /\ ~Responded(k) /\ resp'[k] # NoResp /\ resp'[k].success

\* C13: a successful verify-code leaves no entry under its handle, and a
\* verify-code request received after it with the same handle does not work on
\* the connection it signed in on: it opens a connection of its own (and fails
\* when that cannot be opened).
ConsumedLoginNotReused ==
    [][/\ \A k \in DOMAIN req :
             (Succeeds(k) /\ Truthy(req[k].clientId)) =>
                 req[k].clientId \notin DOMAIN activeClients'
       /\ \A j, k \in DOMAIN req :
             (Received(j) /\ Verified(k) /\ req[k].stored
                /\ req'[j].clientId = req[k].clientId) =>
                 /\ req'[j].client # req[k].client
                 /\ req'[j].stored =>
                        (activeClients[req'[j].clientId].client # req[k].client)
                 /\ ~req'[j].stored =>
                        (req'[j].client = Len(conns) + 1 /\ req'[j].pc = "connect")]_vars

\* C13 witness: within the eviction window a second verify-code with the
\* handle of a successful one is working on a connection it opened itself
SecondVerifyOpenedOwn ==
    \E j, k \in DOMAIN req :
        /\ j # k /\ Verified(k) /\ req[k].stored
        /\ req[j].op = "verify" /\ req[j].clientId = req[k].clientId
        /\ ~req[j].stored /\ req[j].client \notin {0, req[k].client}
        /\ now < EvictionMs

\* the connection of the pending login of send-code request i was evicted:
\* on the Node server only an eviction timer disconnects a login connection
EvictedLogin(i) == HandedOut(i) /\ Disconnecting(req[i].client)

\* verify-code request j of the Node server is answered in this step
Answered(j) ==
    req[j].op = "verify" /\ req[j].impl = "node" /\ ~Responded(j) /\ resp'[j] # NoResp

\* C14 as claimed: of a verify-code and the eviction timer racing for one
\* pending login at most one wins, and a verify-code that loses has found no
\* entry under its handle and works on a connection it opened itself.
RaceLoserFallsBack ==
    [][\A i, j \in DOMAIN req :
          (EvictedLogin(i) /\ Answered(j) /\ req[j].clientId = resp[i].clientId) =>
              /\ ~(resp'[j].success /\ req[j].client = req[i].client)
              /\ ~req[j].stored]_vars

\* the request's handle, as received, names an entry of the registry
HandlePresent(id) == id # Undefined /\ id # <<>> /\ id \in DOMAIN activeClients

\* C15: a verify-code request that carries a phone number invokes sign-in on
\* the stored connection exactly when its handle names a registry entry at the
\* moment of lookup; otherwise it constructs a new unauthenticated client,
\* connects it and, once connected, invokes sign-in on it. It is never
\* answered before a sign-in was attempted unless the new client could not be
\* constructed or connected.
VerifyLookup ==
    [][\A j \in DOMAIN req :
          /\ (Received(j) /\ req'[j].phoneNumber # Undefined) =>
                IF HandlePresent(req'[j].clientId)
                THEN /\ req'[j].stored /\ req'[j].pc = "signin"
                     /\ req'[j].client = activeClients[req'[j].clientId].client
                     /\ conns' = conns
                ELSE /\ ~req'[j].stored
                     /\ credsOk =>
                          /\ req'[j].pc = "connect"
                          /\ req'[j].client = Len(conns) + 1
                          /\ conns' = Append(conns, [state |-> "new", key |-> 0])
          /\ (req[j].op = "verify" /\ req[j].impl = "node" /\ req[j].pc = "connect"
                /\ req'[j].pc # "connect") =>
                IF conns'[req[j].client].state = "connected"
                THEN req'[j].pc = "signin" /\ ~Responded(j) /\ resp'[j] = NoResp
                ELSE req'[j].pc = "done" /\ CallsOf(j, "SignIn") = <<>>
          /\ (Answered(j) /\ req[j].pc = "signin") =>
                /\ Len(SelectSeq(req'[j].lib, LAMBDA e : e.call = "SignIn")) = 1
                /\ \A n \in 1..Len(req'[j].lib) :
                      req'[j].lib[n].call = "SignIn" =>
                          req'[j].lib[n].conn = req[j].client]_vars

\* verify-code request j took no connection from the registry and has
\* invoked sign-in on a connection it opened itself
FellBack(j) ==
    /\ req[j].op = "verify" /\ req[j].impl = "node" /\ ~req[j].stored
    /\ \E n \in 1..Len(req[j].lib) :
          req[j].lib[n].call = "SignIn" /\ req[j].lib[n].conn = req[j].client

\* C15 witness: a verify-code carrying a consumed handle, one a verify-code
\* succeeded with on the stored connection before, has invoked sign-in on a
\* connection it opened itself
ConsumedHandleFellBack ==
    \E i, k, j \in DOMAIN req :
        /\ HandedOut(i)
        /\ Verified(k) /\ req[k].stored /\ req[k].clientId = resp[i].clientId
        /\ j # k /\ req[j].clientId = resp[i].clientId
        /\ FellBack(j) /\ req[j].client # req[i].client

\* C15, the case of a request without a handle
AbsentHandleFellBack == \E j \in DOMAIN req : req[j].clientId = Undefined /\ FellBack(j)

\* C15, the case of an empty handle
EmptyHandleFellBack == \E j \in DOMAIN req : req[j].clientId = <<>> /\ FellBack(j)

\* C15, the case of a handle that was never handed out
UnknownHandleFellBack ==
    \E j \in DOMAIN req : req[j].clientId = UnknownHandle /\ FellBack(j)

\* C15, the case of the handle of an evicted pending login
EvictedHandleFellBack ==
    \E i, j \in DOMAIN req :
        /\ EvictedLogin(i) /\ ~Has(resp[i].clientId)
        /\ req[j].clientId = resp[i].clientId
        /\ FellBack(j) /\ req[j].client # req[i].client

\* C16 as claimed: a failing verify-code leaves the registry as it was; a
\* succeeding one removes at most the entry under its own handle, and only if
\* that entry holds the connection it signed in on.
VerifyRemovesOwnEntryOnly ==
    [][\A j \in DOMAIN req :
          Answered(j) =>
              IF resp'[j].success
              THEN \/ activeClients' = activeClients
                   \/ /\ Has(req[j].clientId)
                      /\ activeClients[req[j].clientId].client = req[j].client
                      /\ activeClients' = MapDelete(activeClients, req[j].clientId)
              ELSE activeClients' = activeClients]_vars

\* send-code request i stores its client under the handle in this step, its
\* connect and its auth.SendCode having succeeded
Stores(i, id) ==
    /\ req[i].op = "send" /\ req[i].impl = "node" /\ req[i].pc = "sendcode"
    /\ req'[i].lib = <<[call |-> "connect", ok |-> TRUE], [call |-> "SendCode", ok |-> TRUE]>>
    /\ resp'[i] # NoResp /\ resp'[i].success /\ resp'[i].clientId = id
    /\ activeClients'[id] = [client |-> req[i].client, phoneNumber |-> req[i].cleanPhone]

\* an eviction timer armed for the handle runs in this step
TimerRuns(id) == \E t \in timers : t.clientId = id /\ now >= t.due /\ t \notin timers'

\* C17: as long as the process runs, a registry entry appears, or is replaced,
\* only in the step in which a send-code whose connect and auth.SendCode both
\* succeeded stores it; it disappears only in the step in which a verify-code
\* carrying its handle succeeds or an eviction timer of its handle runs; no
\* step of a create-group request changes the registry.
RegistryLifecycle ==
    [][running' =>
       /\ \A id \in DOMAIN activeClients' :
             (id \notin DOMAIN activeClients \/ activeClients'[id] # activeClients[id]) =>
                 \E i \in DOMAIN req : Stores(i, id)
       /\ \A id \in DOMAIN activeClients :
             id \notin DOMAIN activeClients' =>
                 \/ \E j \in DOMAIN req : Succeeds(j) /\ req[j].clientId = id
                 \/ TimerRuns(id)
       /\ \A i \in DOMAIN req :
             (req'[i].op = "create" /\ req'[i] # req[i]) =>
                 activeClients' = activeClients]_vars

\* C17 witness: a create-group request was answered while a pending login
\* stood in the registry
GroupAnsweredBesidePendingLogin ==
    \E i, k \in DOMAIN req :
        /\ req[i].op = "create" /\ Responded(i)
        /\ HandedOut(k) /\ Has(resp[k].clientId)
        /\ activeClients[resp[k].clientId].client = req[k].client

(* ----------------------- properties of the failures -------------------- *)

\* the library reported SESSION_PASSWORD_NEEDED to verify-code request j
PasswordNeeded(j) ==
    \E n \in 1..Len(req[j].lib) :
        /\ req[j].lib[n].call = "SignIn"
        /\ Includes(req[j].lib[n].error, "SESSION_PASSWORD_NEEDED")

\* the response carries requiresPassword: true
FlagsPassword(j) == "requiresPassword" \in DOMAIN resp[j] /\ resp[j].requiresPassword

\* C18 as claimed: a failing verify-code answers success:false, with
\* requiresPassword:true exactly when the library reported
\* SESSION_PASSWORD_NEEDED (Node server and edge function).
PasswordFlagExact ==
    \A j \in DOMAIN req :
        (req[j].op = "verify" /\ Responded(j) /\ ~SignedIn(j)) =>
            /\ ~resp[j].success
            /\ FlagsPassword(j) <=> PasswordNeeded(j)

\* C19 as claimed: on a gateway started without app id or app secret every
\* request is answered with the credentials-not-configured failure, and no
\* client is constructed and no library call made for it.
MissingCredentialsFailFast ==
    ~credsOk =>
        \A i \in DOMAIN req :
            req[i].op # "none" =>
                /\ req[i].client = 0 /\ req[i].lib = <<>>
                /\ Responded(i) /\ ~resp[i].success
                /\ resp[i].error = MsgNotConfigured

\* a required field of the Node request is missing or empty: phoneNumber of
\* send-code and verify-code; sessionString, groupName or the list of numbers
\* of create-group
MissingField(i) ==
    CASE req[i].op \in {"send", "verify"} -> req[i].phoneNumber \in {Undefined, <<>>}
      [] req[i].op = "create" ->
            \/ req[i].sessionString = 0
            \/ req[i].groupName = <<>>
            \/ req[i].mobileNumbers \in {<<>>, NoList}
      [] OTHER -> FALSE

\* C20 as claimed: a Node request with a missing or empty required field makes
\* no library call and is answered with a failure.
EmptyFieldRejected ==
    \A i \in DOMAIN req :
        (req[i].impl = "node" /\ MissingField(i)) =>
            /\ req[i].lib = <<>>
            /\ Responded(i) => ~resp[i].success

\* a library call of request i threw
LibraryThrew(i) ==
    \E n \in 1..Len(req[i].lib) :
        LET e == req[i].lib[n]
        IN  IF e.call = "ImportContacts" THEN e.outcome = "throw" ELSE ~e.ok

\* a step of the handler itself threw: reading a missing phoneNumber or
\* mobileNumbers, or constructing the client without credentials
HandlerThrew(i) ==
    \/ req[i].op \in {"send", "verify"} /\ req[i].phoneNumber = Undefined
    \/ req[i].op = "create" /\ req[i].mobileNumbers = NoList
    \/ req[i].op # "none" /\ req[i].client = 0 /\ ~credsOk

\* the response of request i is a structured failure
StructuredFailure(i) ==
    /\ ~resp[i].success /\ resp[i].status \in {400, 500}
    /\ "error" \in DOMAIN resp[i] /\ resp[i].error # <<>>

\* C21 as claimed: every request the Node server received gets a response,
\* so that none is left without one by a process that has ended, and a
\* request in which any library call or handler step threw is answered with
\* a structured failure.
EveryThrowFails ==
    \A i \in DOMAIN req :
        req[i].impl = "node" =>
            /\ ~Responded(i) => running
            /\ (Responded(i) /\ (LibraryThrew(i) \/ HandlerThrew(i))) =>
                   StructuredFailure(i)

\* the groups request i created: its messages.CreateChat calls that returned
GroupsOf(i) == SelectSeq(req[i].lib, LAMBDA e : e.call = "CreateChat" /\ e.ok)

\* C30 as claimed: of the create-group calls made with one session string at
\* most one creates a group.
OneGroupPerSession ==
    \A i, j \in DOMAIN req :
        (i # j /\ req[i].op = "create" /\ req[j].op = "create"
           /\ req[i].sessionString = req[j].sessionString) =>
            ~(Len(GroupsOf(i)) > 0 /\ Len(GroupsOf(j)) > 0)

\* C30 amended: one create-group call creates at most one group, by at most
\* one messages.CreateChat call; calls with the same session string are
\* independent of each other, so a session creates at most as many groups as
\* calls were made with it.
OneGroupPerCall ==
    \A i \in DOMAIN req :
        req[i].op = "create" =>
            /\ Len(CallsOf(i, "CreateChat")) <= 1
            /\ Len(GroupsOf(i)) <= 1

\* C30 witness: two create-group calls with the same session string were
\* answered success, each having created its group
TwoGroupsOneSession ==
    \E i, j \in DOMAIN req :
        /\ i # j /\ req[i].op = "create" /\ req[j].op = "create"
        /\ req[i].sessionString = req[j].sessionString
        /\ Len(GroupsOf(i)) = 1 /\ Len(GroupsOf(j)) = 1
        /\ Responded(i) /\ resp[i].success /\ Responded(j) /\ resp[j].success

(* ------------------------ properties of the client -------------------- *)

\* the answer reports success: HTTP status ok and success: true
ReportsSuccess(r) == "status" \in DOMAIN r /\ r.status \in 200..299 /\ r.success

\* the fetch of the endpoint settles in this step
Answers(endpoint) == http.pending.endpoint = endpoint /\ http'.pending = NoFetch

\* a request to the endpoint is sent in this step
Sends(endpoint) == http.pending = NoFetch /\ http'.pending.endpoint = endpoint

\* C22: the step becomes otp, and the stored code-hash or handle changes,
\* only in a step in which a send-code answer reporting success is read, and
\* after that step the stored code-hash and handle are the ones of that
\* answer; a verify-code request carries the stored code-hash and handle as
\* they are.
OtpOnlyOnSentCode ==
    [][/\ (\/ form'.step = "otp" /\ form.step # "otp"
           \/ form'.phoneCodeHash # form.phoneCodeHash
           \/ form'.clientId # form.clientId) =>
              /\ Answers("send-code")
              /\ ReportsSuccess(http'.response)
       /\ Answers("send-code") /\ ReportsSuccess(http'.response) =>
              /\ form'.step = "otp"
              /\ form'.phoneCodeHash = http'.response.phoneCodeHash
              /\ form'.clientId = http'.response.clientId
       /\ Sends("verify-code") =>
              /\ http'.pending.body.phoneCodeHash = form.phoneCodeHash
              /\ http'.pending.body.clientId = form.clientId]_vars

\* a verify-code is in flight carrying the code-hash and handle of the
\* second login the server answered
VerifySentStoredLogin ==
    /\ http.pending.endpoint = "verify-code"
    /\ http.pending.body.phoneCodeHash = 2
    /\ http.pending.body.clientId = MkClientId(<<"1">>, 2)
    /\ form.phoneCodeHash = 2

\* C23 as claimed: a step that takes the client back from otp to phone
\* leaves it holding neither the code-hash nor the handle of the login it
\* abandons.
BackDiscardsLogin ==
    [][form.step = "otp" /\ form'.step = "phone" =>
           form'.phoneCodeHash = 0 /\ form'.clientId = <<>>]_vars

\* C24: the step becomes group, and the stored session token changes, only
\* in a step in which a verify-code answer reporting success is read, and
\* after that step the stored token is the one of that answer; a
\* create-group request carries the stored token as it is.
GroupOnlyOnVerifiedCode ==
    [][/\ (\/ form'.step = "group" /\ form.step # "group"
           \/ form'.sessionString # form.sessionString) =>
              /\ Answers("verify-code")
              /\ ReportsSuccess(http'.response)
       /\ Answers("verify-code") /\ ReportsSuccess(http'.response) =>
              /\ form'.step = "group"
              /\ form'.sessionString = http'.response.sessionString
       /\ Sends("create-group") =>
              http'.pending.body.sessionString = form.sessionString]_vars

\* a create-group is in flight carrying the token the verify-code answer
\* returned
CreateSentStoredToken ==
    /\ http.pending.endpoint = "create-group"
    /\ http.pending.body.sessionString = 2
    /\ form.sessionString = 2
    /\ form.step = "group"

\* C25: in the step in which a create-group answer reporting success is
\* read, the group name, the member text and the image become empty, the
\* session token, the phone number and the backend URL keep their values,
\* and the client is and stays in step group, not loading, so that the form
\* can be submitted again with the same token.
SuccessClearsGroupFieldsOnly ==
    [][Answers("create-group") /\ ReportsSuccess(http'.response) =>
           /\ form'.formData.groupName = <<>>
           /\ form'.formData.mobileNumbers = <<>>
           /\ form'.formData.groupImage = 0
           /\ form'.imagePreview = 0
           /\ form'.sessionString = form.sessionString
           /\ form'.formData.phoneNumber = form.formData.phoneNumber
           /\ form'.formData.backendUrl = form.formData.backendUrl
           /\ form.step = "group" /\ form'.step = "group"
           /\ ~form'.isLoading]_vars

\* a further create-group is in flight after one that succeeded, with an
\* image picked for the first, without a verify-code in between
NextGroupSameSession ==
    /\ http.pending.endpoint = "create-group"
    /\ ReportsSuccess(http.response)
    /\ "message" \in DOMAIN http.response
    /\ http.pending.body.sessionString = form.sessionString
    /\ form.formData.groupImage = 0
    /\ form.imagePreview = 1

\* the fetch in flight settles in this step with a rejection or with an
\* answer that does not report success
AnswersFailure ==
    /\ http.pending # NoFetch
    /\ http'.pending = NoFetch
    /\ ~ReportsSuccess(http'.response)

\* C26: in the step in which a send-code, verify-code or create-group fetch
\* rejects or is answered without success, the client shows an error toast,
\* whose text is the error of the answer when the server sent one and the
\* message of the rejection otherwise; step, code-hash, handle, session
\* token and every form field keep their values, and no request is sent.
FailureShownStateKept ==
    [][AnswersFailure =>
           /\ form'.toast.kind = "error"
           /\ form'.toast.text = IF "error" \in DOMAIN http'.response
                                 THEN http'.response.error
                                 ELSE http'.response.message
           /\ form'.step = form.step
           /\ form'.phoneCodeHash = form.phoneCodeHash
           /\ form'.clientId = form.clientId
           /\ form'.sessionString = form.sessionString
           /\ form'.formData = form.formData
           /\ http'.sent = http.sent]_vars

\* a verify-code was answered with the server's two-factor failure, which
\* the toast shows, the client idle in step otp with its login kept
VerifyFailureShown ==
    /\ http.pending = NoFetch
    /\ http.response = NodeVerifyFailure(MsgPassword)
    /\ form.toast = Toast("error", MsgTwoFactor)
    /\ form.step = "otp"
    /\ form.phoneCodeHash = 2
    /\ ~form.isLoading

\* the text is empty or whitespace only
Blank(s) == \A n \in 1..Len(s) : s[n] \in Whitespace

\* the member text holds nothing but separators and whitespace, so that its
\* parsed list is empty
NoMember(text) == \A n \in 1..Len(text) : text[n] \in Whitespace \cup Separators

\* C27: a step sends a request only when the submitted field is not blank:
\* send-code needs a phone number with a character that is not whitespace,
\* verify-code such a code, create-group such a group name and a member
\* text holding a character that is neither whitespace nor separator; and no
\* request is ever sent while another is in flight.
BlankRejectedLocally ==
    [][http'.sent # http.sent =>
           /\ http.pending = NoFetch
           /\ http'.sent = http.sent + 1
           /\ http'.pending.endpoint = "send-code" =>
                  ~Blank(form.formData.phoneNumber)
           /\ http'.pending.endpoint = "verify-code" =>
                  ~Blank(form.formData.otpCode)
           /\ http'.pending.endpoint = "create-group" =>
                  /\ ~Blank(form.formData.groupName)
                  /\ ~NoMember(form.formData.mobileNumbers)
                  /\ http'.pending.body.mobileNumbers # <<>>]_vars

\* a member text of separators only was submitted with a group name and rejected
\* by the client itself, nothing being in flight
SeparatorsRejected ==
    /\ form.formData.mobileNumbers = <<",", "\n">>
    /\ ~Blank(form.formData.groupName)
    /\ form.toast = Toast("error", MsgNoValidNumbers)
    /\ form.status = "error"
    /\ http.pending = NoFetch
    /\ ~form.isLoading

\* the maximal separator-free stretches of a text, as pairs of positions
Runs(text) ==
    {<<a, b>> \in (1..Len(text)) \X (1..Len(text)) :
        /\ a <= b
        /\ \A n \in a..b : text[n] \notin Separators
        /\ a = 1 \/ text[a - 1] \in Separators
        /\ b = Len(text) \/ text[b + 1] \in Separators}

\* the runs of a text from left to right
RunsInOrder(text) ==
    LET R == Runs(text)
    IN  CHOOSE q \in [1..Cardinality(R) -> R] :
            \A m, n \in 1..Cardinality(R) : m < n => q[m][1] < q[n][1]

\* the tokens the parser must return for a text: each run trimmed, in
\* order, those that trim to nothing left out
TokensOf(text) ==
    LET q == RunsInOrder(text)
        trimmed == [n \in 1..Len(q) |-> Trim(SubSeq(text, q[n][1], q[n][2]))]
    IN  SelectSeq(trimmed, LAMBDA t : t # <<>>)

\* a token is not empty, holds no separator and has no whitespace at
\* either end
CleanToken(t) ==
    /\ t # <<>>
    /\ \A n \in 1..Len(t) : t[n] \notin Separators
    /\ t[1] \notin Whitespace
    /\ t[Len(t)] \notin Whitespace

\* C28: for the member text in the textarea, the parser returns the maximal
\* runs between separators, trimmed, in input order, without the empty ones
\* and with duplicates kept; every token it returns is clean; and the list
\* of a create-group request in flight is the parsed list of the text, which
\* is the list the preview shows.
ParserReturnsTrimmedRuns ==
    LET text == form.formData.mobileNumbers
        shown == parsedNumbers(text)
    IN  /\ shown = TokensOf(text)
        /\ \A n \in 1..Len(shown) : CleanToken(shown[n])
        /\ http.pending.endpoint = "create-group" =>
               http.pending.body.mobileNumbers = shown

\* a text with a run of two separators and a repeated number is in flight
\* as two equal tokens
DuplicateSent ==
    /\ form.formData.mobileNumbers = <<"1", ",", "\n", "1">>
    /\ http.pending.endpoint = "create-group"
    /\ http.pending.body.mobileNumbers = << <<"1">>, <<"1">> >>

\* the Save button's complaint about a blank URL appears in this step
SaveRefused ==
    /\ form'.toast = Toast("error", MsgEnterUrl)
    /\ form.toast # Toast("error", MsgEnterUrl)

\* C29: before its first effect the client is in step setup, and that
\* effect moves it to phone exactly when a URL was saved before; any other
\* step from setup to phone is a save of a non-blank URL, which stores the
\* trimmed URL; localStorage changes in no other step; and a save of a
\* blank URL leaves the step at setup and localStorage as it was.
SetupSkippedOrSaved ==
    /\ ~form.mounted => form.step = "setup"
    /\ [][/\ ~form.mounted /\ form'.mounted =>
                 (form'.step = "phone" <=> localStorage # <<>>)
          /\ form.mounted /\ form.step = "setup" /\ form'.step = "phone" =>
                 /\ ~Blank(form.formData.backendUrl)
                 /\ localStorage' = Trim(form.formData.backendUrl)
          /\ localStorage' # localStorage =>
                 /\ form.step = "setup" /\ form'.step = "phone"
                 /\ ~Blank(form.formData.backendUrl)
                 /\ localStorage' = Trim(form.formData.backendUrl)
          /\ SaveRefused =>
                 /\ Blank(form.formData.backendUrl)
                 /\ form.step = "setup" /\ form'.step = "setup"
                 /\ localStorage' = localStorage]_vars

\* a first visit: the URL typed with a leading blank was saved trimmed and
\* the client moved to step phone, after a blank one had been refused
TrimmedUrlSaved ==
    /\ localStorage = <<"u">>
    /\ form.formData.backendUrl = <<" ", "u">>
    /\ form.step = "phone"
    /\ form.toast = Toast("success", MsgUrlSaved)
    /\ form.formData.phoneNumber = <<>>

(* ------------------- properties across the components ----------------- *)

\* verify-code request j of the Node server took its client from the
\* registry and its auth.SignIn on it has not settled yet
SigningInOnStored(j) ==
    /\ req[j].op = "verify" /\ req[j].impl = "node"
    /\ req[j].stored /\ req[j].pc = "signin"

\* C31 as claimed: two verify-code requests that overlap and carry the same
\* handle are never both signing in on the same stored connection.
LookupAndRemovalAtomic ==
    \A j, k \in DOMAIN req :
        (j # k /\ SigningInOnStored(j) /\ SigningInOnStored(k)
           /\ req[j].clientId = req[k].clientId) =>
            req[j].client # req[k].client

\* the moves between steps the specification draws
StepEdges ==
    {<<"setup", "phone">>, <<"phone", "otp">>, <<"otp", "group">>,
     <<"otp", "phone">>, <<"phone", "setup">>}

\* C32 as claimed: the step of the client changes only along the edges
\* setup->phone, phone->otp, otp->group, otp->phone and phone->setup, also
\* when an answer arrives after a back button was pressed.
StepsAlongEdges ==
    [][form'.step # form.step => <<form.step, form'.step>> \in StepEdges]_vars

\* the handle names the phone number: it is `${cleanPhone}_${time}` for it
HandleOf(phone, id) == \E t \in 0..9 : id = MkClientId(CleanPhone(phone), t)

\* C33 as claimed: the phone number of a verify-code request is the one of
\* the send-code request that produced the handle sent with it, the handle
\* of the Node server being made of that phone number.
VerifySendsPhoneOfLogin ==
    [][Sends("verify-code") =>
           HandleOf(http'.pending.body.phoneNumber, http'.pending.body.clientId)]_vars

\* C34: isLoading is true exactly while a request is in flight, and a
\* request is started only in a step that begins with isLoading false and
\* nothing in flight, so that at most one request is in flight, in every
\* step of the form and after any back navigation.
OneRequestInFlight ==
    /\ [](form.isLoading <=> http.pending # NoFetch)
    /\ [][http'.sent # http.sent =>
              /\ ~form.isLoading
              /\ http.pending = NoFetch
              /\ http'.pending # NoFetch]_vars

\* a verify-code is in flight and the user went back to step phone, whose
\* Send OTP button is disabled with a phone number entered
LoadingAfterBack ==
    /\ http.pending.endpoint = "verify-code"
    /\ form.step = "phone"
    /\ form.isLoading
    /\ ~Blank(form.formData.phoneNumber)
    /\ ~ENABLED handleSendCode

\* C35 as claimed: every connection the gateway opened is disconnected in
\* the end.
EveryConnectionClosed ==
    \A c \in Slots :
        (c \in DOMAIN conns /\ conns[c].state = "connected")
            ~> (c \in DOMAIN conns /\ conns[c].state = "closed")

\* C36: every response of send-code, verify-code and create-group carries a
\* status and a success flag, the status is 2xx exactly when success is
\* true, and the client's test, status not ok or success false, gives the
\* verdict of either field alone.
StatusMatchesSuccess ==
    \A i \in DOMAIN req :
        Responded(i) =>
            /\ "status" \in DOMAIN resp[i] /\ "success" \in DOMAIN resp[i]
            /\ resp[i].status \in 200..299 <=> resp[i].success
            /\ Failed(resp[i]) <=> ~Ok(resp[i])
            /\ Failed(resp[i]) <=> ~resp[i].success

\* a send-code answered 200 with success and the verify-code after it 400
\* without
BothVerdictsAnswered ==
    \E i, j \in DOMAIN req :
        /\ req[i].op = "send" /\ Responded(i) /\ resp[i].status = 200 /\ resp[i].success
        /\ req[j].op = "verify" /\ Responded(j) /\ resp[j].status = 400 /\ ~resp[j].success

\* the library answers the edge function's n-th call of a kind as it
\* answered the Node handler's n-th call of that kind, in the field given;
\* a call the Node handler never made is answered freely
AsForNode(kind, n, field, value) ==
    LET calls == CallsOf(1, kind)
    IN  n <= Len(calls) => calls[n][field] = value

\* the call of the kind the edge function is about to make is its n-th
NextCall(kind) == Len(CallsOf(2, kind)) + 1

\* one create-group request to the Node server, then the same request to
\* the edge function, the library answering both alike
NextPair ==
    \/ \E s \in SessionInputs, g \in GroupNames, m \in NumberLists(MaxNums) :
          NodeCreateGroupStart(1, s, g, m)
    \/ \E ok \in BOOLEAN : NodeCreateGroupConnected(1, ok)
    \/ \E o \in ImportOutcomes : NodeCreateGroupResolved(1, o)
    \/ \E ok \in BOOLEAN : NodeCreateGroupEmpty(1, ok)
    \/ \E o \in ChatOutcomes : NodeCreateGroupCreated(1, o)
    \/ \E ok \in BOOLEAN : NodeCreateGroupDone(1, ok)
    \/ /\ Responded(1)
       /\ EdgeCreateGroupStart(2, req[1].sessionString, req[1].groupName,
                               req[1].mobileNumbers)
    \/ EdgeBodyRead(2)
    \/ \E ok \in BOOLEAN :
          /\ AsForNode("connect", 1, "ok", ok)
          /\ EdgeCreateGroupConnected(2, ok)
    \/ \E o \in ImportOutcomes :
          /\ AsForNode("ImportContacts", NextCall("ImportContacts"), "outcome", o)
          /\ EdgeCreateGroupResolved(2, o)
    \/ \E ok \in BOOLEAN :
          /\ AsForNode("disconnect", 1, "ok", ok)
          /\ EdgeCreateGroupEmpty(2, ok)
    \/ \E o \in ChatOutcomes :
          /\ AsForNode("CreateChat", 1, "ok", o = "ok")
          /\ EdgeCreateGroupCreated(2, o)
    \/ \E ok \in BOOLEAN :
          /\ AsForNode("disconnect", 1, "ok", ok)
          /\ EdgeCreateGroupDone(2, ok)

SpecPair == Init /\ [][NextPair]_vars

\* the users and title of the messages.CreateChat calls of a request
ChatsOf(i) ==
    [n \in 1..Len(CallsOf(i, "CreateChat")) |->
        [users |-> CallsOf(i, "CreateChat")[n].users,
         title |-> CallsOf(i, "CreateChat")[n].title]]

\* the count a response reports under the name, none when it has none
Reported(i, name) == IF name \in DOMAIN resp[i] THEN resp[i][name] ELSE -1

\* C37 as claimed: the Node handler and the edge function, given the same
\* create-group request and the same answers of the library, make the same
\* messages.CreateChat call or none and return the same success flag,
\* membersAdded and totalRequested.
GatewaysAgreeOnCreateGroup ==
    (Responded(1) /\ Responded(2)) =>
        /\ ChatsOf(1) = ChatsOf(2)
        /\ resp[1].success = resp[2].success
        /\ Reported(1, "membersAdded") = Reported(2, "membersAdded")
        /\ Reported(1, "totalRequested") = Reported(2, "totalRequested")

====
